---- MODULE Spec2Model ----
(***************************************************************************)
(* A model of the DMP occupation-segment pipeline:                         *)
(*   - the reference-data collectors and their dated snapshot files        *)
(*     (collect_industry_codes.py, collect_legal_dong_codes.py,            *)
(*      collect_dart_data.py, core/utils.py ReferenceDataManager)          *)
(*   - the orchestrator (data_pipeline/pipeline.py)                        *)
(*   - the location matcher (matching/matcher.py)                          *)
(* Each part is a state machine of its own with its own specification; the *)
(* variables of the other parts stay at their initial value.               *)
(***************************************************************************)
EXTENDS Integers, Sequences, FiniteSets, TLC

VARIABLES
    \* ---- collectors and snapshot directories
    ds,          \* the dataset the directory pair belongs to
    today,       \* what datetime.now().strftime('%Y%m%d') gives at this moment
    raw,         \* RAW_DATA_DIR: date suffix -> content of {name}_raw_{date}.csv
    final,       \* FINAL_DATA_DIR: date suffix -> content of {name}_{date}.csv
    cpc,         \* position inside main() / save_to_csv()
    fetched,     \* all_data returned by fetch_all_pages()
    path,        \* raw_path / final_path / latest_raw held by the running function
    run,         \* what the current run of main() did so far (a record)
    everStuck,   \* some unlink of cleanup_old_files has failed since the start
    \* ---- DataPipeline
    pmode,       \* the method that runs: reference, company, school, full
    ppc,         \* the step the orchestrator is at, and its phase
    attempted,   \* the steps whose function has been called
    failedSteps, \* the steps whose function raised
    \* ---- SyncMatcher.match_locations
    job,             \* place_type and the sizes self.chunk_size,
                     \* self.batch_size, INTERMEDIATE_SAVE_INTERVAL
    input_csv,       \* the input file
    output_csv,      \* the output file
    mpc,             \* position inside match_locations
    mpos,            \* rows of the input the chunk iterator has delivered
    futures,         \* the submitted batches whose process_batch has not ended
    completed,       \* the ended batches as_completed has not yielded yet
    results,         \* batch_find_nearest_places_parallel's results list
    nloc,            \* len(user_locations) of the chunk
    all_results,
    processed_count,
    matched_count,
    first_write,
    mret,            \* what match_locations returned
    collected,       \* every result the as_completed loop has collected
    abandoned,       \* sync_msearch has returned None for some batch
    saves,           \* the calls of _save_results that wrote: mode, header, lines
    \* ---- sync_msearch and process_batch for one batch
    sbatch,      \* the batch: its (lat, lon, adid) tuples with the answers
    splace,      \* place_type
    attempt,     \* the loop variable of sync_msearch
    requests,    \* the outcome of every request sent so far
    sresponse,   \* what sync_msearch returned
    spc,         \* position: in the loop, returned to process_batch, done
    sout,        \* what process_batch did: raised, or its result list
    \* ---- batch_find_nearest_places_parallel and its worker pool
    wlocs,       \* user_locations
    wcfg,        \* place_type, self.batch_size, self.concurrency and the
                 \* batches whose msearch gets no response
    queued,      \* submitted batches no worker has taken, in submission order
    running,     \* batches a worker thread is processing
    finished,    \* completed futures as_completed has not yielded yet
    yielded,     \* the batches in the order as_completed yielded them
    wresults,    \* the results list
    wpc,         \* position: start, collect, returned, raised
    \* ---- match_locations against the documents of the index
    gin,         \* the input file: time_col and the rows with their position
    gcfg,        \* place_type, self.chunk_size, self.batch_size
    gindex,      \* the documents of the places index
    gpos,        \* rows of the input the chunk iterator has delivered
    gpending,    \* the submitted batches no worker has started
    gflight,     \* the batches with a request under way and its attempt
    gdone,       \* the completed batches whose results wait for collection
    gsent,       \* the msearch bodies sent so far, one per request
    gfailed,     \* some msearch request failed
    gresults,    \* all_results
    gout,        \* the output file
    gpc,         \* position: chunk, batches, shutdown, raised, done
    \* ---- the collectors and processors that work row by row
    eproc,       \* the processor
    edf,         \* the rows of its input
    ework,       \* the frame the rows are taken from (df)
    etasks,      \* the submitted tasks that have not completed: their idx
    eresults,    \* results: the dict of the pool, or the list of the loop
    ecursor,     \* rows the sequential loop has handled
    eout,        \* the rows of the output
    epc,         \* position: start, pool, loop, done, raised
    \* ---- the address lookup of one record
    kcaller,     \* process_single_address or fix_missing_coordinates
    kaddress,    \* the record's address value
    klookups,    \* the address queries sent to the provider, with the outcome
    kcoord,      \* the coordinate pair the caller holds: "None" or "pair"
    kregion,     \* the region lookup: not made, or its outcome and result
    kraised,     \* a client method has raised to its caller
    kpc,         \* position: first, second, region, done, raised
    \* ---- an enrichment processor applied to a record, and to its output
    nproc,       \* the processor
    nhist,       \* the record: as given, after one and after two applications
    ncalls,      \* the remote calls of each application
    \* ---- the request loops of the collectors
    fcollector,  \* the function that runs the loop
    fpage,       \* page / page_no
    fretry,      \* attempt (DART) or retry_count (universities)
    flast,       \* what the last request met
    ftries,      \* the transient failures in a row, the last request included
    fpc,         \* position: loop, returned, raised, saved, fallback
    fgot,        \* the record list holds the items of some page
    fgap,        \* a page was skipped or the loop stopped before the end
    fsnapshot,   \* the latest raw snapshot: previous, complete, partial
    \* ---- the sites that pick the latest snapshot
    ldataset,    \* the dataset whose snapshot is looked for
    lkind,       \* the directory listed: raw or final
    ldir,        \* the listing in the order glob returns it
    lpicks,      \* per site: whether it ran and the position it picked
    \* ---- the indexer
    xfiles,      \* per place type: whether a final CSV exists, and its rows
    xchunk,      \* chunk_size of helpers.bulk
    xindex,      \* the documents of the index
    xpc,         \* position: start, open, bulk, done, raised
    xat,         \* the dataset run_indexing is at
    xpending,    \* the documents generate_docs has still to yield
    xok,         \* documents accepted in the current load
    xrejected,   \* documents rejected in the current load
    xaccepted,   \* the ids the server accepted during the run
    xreport,     \* per place type: what index_data printed and returned
    \* ---- address cleaning applied to its own result
    qaddress,    \* the address given
    qonce,       \* clean_address_for_search(address)
    qtwice,      \* clean_address_for_search of that result
    qpc,         \* position: given, once, twice
    \* ---- the industry hierarchy and the classification of a company
    traw,        \* the rows of the raw industry CSV, in file order
    trec,        \* the company row: its code and the dtype of its column
    thier,       \* the rows of the final industry CSV
    tout,        \* the industry columns of the company row
    tpc,         \* position: raw, final, classified
    \* ---- the company pipeline
    ytoday,      \* the date of the run
    yraw,        \* the latest raw company snapshot: none, old, new
    yinter,      \* companies_with_coordinates.csv: none, stale, fresh
    yref,        \* whether a final industry table exists
    yfinal,      \* the latest final company snapshot
    ybefore,     \* the latest final company snapshot before the run
    ygeo,        \* how the geocoding step ended: none, done, failed
    ypc          \* position: collect, geocode, industry, done

cvars == <<ds, today, raw, final, cpc, fetched, path, run, everStuck>>

pvars == <<pmode, ppc, attempted, failedSteps>>

mvars == <<job, input_csv, output_csv, mpc, mpos, futures, completed, results,
           nloc,
           all_results, processed_count, matched_count, first_write, mret,
           collected, abandoned, saves>>

svars == <<sbatch, splace, attempt, requests, sresponse, spc, sout>>

wvars == <<wlocs, wcfg, queued, running, finished, yielded, wresults, wpc>>

gvars == <<gin, gcfg, gindex, gpos, gpending, gflight, gdone, gsent, gfailed,
           gresults, gout, gpc>>

evars == <<eproc, edf, ework, etasks, eresults, ecursor, eout, epc>>

kvars == <<kcaller, kaddress, klookups, kcoord, kregion, kraised, kpc>>

nvars == <<nproc, nhist, ncalls>>

fvars == <<fcollector, fpage, fretry, flast, ftries, fpc, fgot, fgap,
           fsnapshot>>

lvars == <<ldataset, lkind, ldir, lpicks>>

xvars == <<xfiles, xchunk, xindex, xpc, xat, xpending, xok, xrejected,
           xaccepted, xreport>>

qvars == <<qaddress, qonce, qtwice, qpc>>

tvars == <<traw, trec, thier, tout, tpc>>

yvars == <<ytoday, yraw, yinter, yref, yfinal, ybefore, ygeo, ypc>>

vars == <<cvars, pvars, mvars, svars, wvars, gvars, evars, kvars, nvars, fvars, lvars, xvars, qvars, tvars,
         yvars>>

notCollect == <<pvars, mvars, svars, wvars, gvars, evars, kvars, nvars, fvars,
    lvars,
    xvars,
    qvars,
    tvars,
    yvars>>

notPipeline == <<cvars, mvars, svars, wvars, gvars, evars, kvars, nvars, fvars,
    lvars,
    xvars,
    qvars,
    tvars,
    yvars>>

notMatch == <<cvars, pvars, svars, wvars, gvars, evars, kvars, nvars, fvars,
    lvars,
    xvars,
    qvars,
    tvars,
    yvars>>

notMsearch == <<cvars, pvars, mvars, wvars, gvars, evars, kvars, nvars, fvars,
    lvars,
    xvars,
    qvars,
    tvars,
    yvars>>

notPool == <<cvars, pvars, mvars, svars, gvars, evars, kvars, nvars, fvars,
    lvars,
    xvars,
    qvars,
    tvars,
    yvars>>

notGeo == <<cvars, pvars, mvars, svars, wvars, evars, kvars, nvars, fvars,
    lvars,
    xvars,
    qvars,
    tvars,
    yvars>>

notRows == <<cvars, pvars, mvars, svars, wvars, gvars, kvars, nvars, fvars,
    lvars,
    xvars,
    qvars,
    tvars,
    yvars>>

notKakao == <<cvars, pvars, mvars, svars, wvars, gvars, evars, nvars, fvars,
    lvars,
    xvars,
    qvars,
    tvars,
    yvars>>

notEnrich == <<cvars, pvars, mvars, svars, wvars, gvars, evars, kvars, fvars,
    lvars,
    xvars,
    qvars,
    tvars,
    yvars>>

notFetch == <<cvars, pvars, mvars, svars, wvars, gvars, evars, kvars, nvars,
    lvars,
    xvars,
    qvars,
    tvars,
    yvars>>

notLatest == <<cvars, pvars, mvars, svars, wvars,
    gvars, evars, kvars, nvars, fvars,
    xvars,
    qvars,
    tvars,
    yvars>>

notIndex == <<cvars, pvars, mvars, svars, wvars,
    gvars, evars, kvars, nvars, fvars, lvars,
    qvars,
    tvars,
    yvars>>

notClean == <<cvars, pvars, mvars, svars, wvars, gvars,
    evars, kvars, nvars, fvars, lvars, xvars,
    tvars,
    yvars>>

notIndustry == <<cvars, pvars, mvars, svars, wvars, gvars,
    evars, kvars, nvars, fvars, lvars, xvars, qvars,
    yvars>>

notCompany == <<cvars, pvars, mvars, svars, wvars, gvars, evars,
    kvars, nvars, fvars, lvars, xvars, qvars, tvars>>

(***************************************************************************)
(* Bounds of the model.                                                    *)
(***************************************************************************)
MaxDate == 3

MaxRows == 2

MaxBatch == 2

MaxLocs == 3

MaxGeoRows == 2

MaxFrame == 3

MaxAddr == 3

MaxName == 2

MaxPage == 4

MaxSnap == 3

MaxMtime == 2

MaxIndexRows == 3

MaxClean == 5

MaxCodes == 4

Dates == 1..MaxDate

\* Two versions of a remote listing are enough to tell a file from another.
Versions == {"v1", "v2"}

(***************************************************************************)
(* Snapshot files.  A file name is {dataset}[_raw]_{YYYYMMDD}.csv; the     *)
(* glob pattern of a dataset selects exactly its own files, so a directory *)
(* is modelled per dataset as a function from the date suffix to the       *)
(* content, NoFile where there is no file of that date.  %Y%m%d is fixed   *)
(* width, so the lexicographic order of the suffixes is the order of the   *)
(* dates.                                                                  *)
(* A content is a version of the remote listing and the shape of its       *)
(* records: "std" has the documented columns, "odd" has other columns.     *)
(***************************************************************************)
NoFile == [ver |-> "none", shape |-> "none"]

RawContents == [ver : Versions, shape : {"std", "odd"}]

Datasets == {"industry", "legal_dong", "company"}

EmptyDir == [d \in Dates |-> NoFile]

Files(dir) == {d \in Dates : dir[d] # NoFile}

\* The file with the smallest date suffix.
Oldest(dir) == CHOOSE d \in Files(dir) : \A e \in Files(dir) : d <= e

\* raw_files.sort(key=lambda x: x.stem.split('_')[-1], reverse=True); raw_files[0]
Latest(dir) == CHOOSE d \in Files(dir) : \A e \in Files(dir) : e <= d

\* process_and_save_final: build_hierarchy indexes df['업종코드'], df['원본업종코드']
\* and row['업종한글명'] and raises KeyError on a raw file without them; the
\* legal-dong version renames the two columns only when both are present.
NormRaises(d, c) == d = "industry" /\ c.shape # "std"

Normalize(d, c) ==
    IF d = "industry" THEN [ver |-> c.ver, shape |-> "hierarchy"]
    ELSE IF c.shape = "std" THEN [ver |-> c.ver, shape |-> "renamed"]
    ELSE c

\* cleanup_old_files: every globbed file other than keep_file is unlinked; an
\* unlink that raises is swallowed (except Exception: pass), so any subset of
\* the other files may survive.
cleanup_old_files(dir, keep, stuck) ==
    [d \in Dates |-> IF d = keep \/ d \in stuck THEN dir[d] ELSE NoFile]

NewRun == [fetch |-> "none", failed |-> FALSE, rawAtFb |-> FALSE,
           normFrom |-> 0, latestAtFb |-> 0, stuck |-> FALSE, deleted |-> FALSE,
           start |-> 0,
           rawDate |-> 0, finalDate |-> 0, result |-> "running"]

(***************************************************************************)
(* The clock.  Every function reads datetime.now() by itself, so the date  *)
(* may change between two steps of one run.                                *)
(***************************************************************************)
Tick ==
    /\ today < MaxDate
    /\ today' = today + 1
    /\ UNCHANGED <<ds, raw, final, cpc, fetched, path, run, everStuck>>
    /\ UNCHANGED notCollect

(***************************************************************************)
(* main() of a collector.                                                  *)
(***************************************************************************)
\* What the try block's fetch can end in: "net" a RequestException re-raised
\* as Exception, "shape" an unexpected response shape, "empty" an empty
\* listing (main raises on it), "data" a non-empty record list.
FetchOutcomes == {"net", "shape", "empty", "data"}

\* try: all_data = fetch_all_pages(); if not all_data: raise Exception
MainFetch ==
    /\ cpc = "idle"
    /\ \E o \in FetchOutcomes, c \in RawContents :
         /\ o # "data" => c = [ver |-> "v1", shape |-> "std"]
         /\ fetched' = IF o = "data" THEN c ELSE NoFile
         /\ run' = [NewRun EXCEPT !.fetch = o, !.failed = (o # "data"),
                                  !.start = today]
         /\ cpc' = IF o = "data" THEN "save_raw" ELSE "fallback"
    /\ path' = 0
    /\ UNCHANGED <<ds, today, raw, final, everStuck>>
    /\ UNCHANGED notCollect

\* collect_dart_data.main computes raw_filename once, when main starts;
\* save_raw_to_csv reads the clock when it is called.
RawName == IF ds = "company" THEN run.start ELSE today

\* save_raw_to_csv: df.to_csv(raw_path)
SaveRawWrite ==
    /\ cpc = "save_raw"
    /\ raw' = [raw EXCEPT ![RawName] = fetched]
    /\ path' = RawName
    /\ run' = [run EXCEPT !.rawDate = RawName]
    /\ cpc' = "clean_raw"
    /\ UNCHANGED <<ds, today, final, fetched, everStuck>>
    /\ UNCHANGED notCollect

\* save_raw_to_csv: cleanup_old_files("..._raw_*.csv", raw_path, RAW_DATA_DIR);
\* collect_dart_data.main ends here with return True.
SaveRawCleanup ==
    /\ cpc = "clean_raw"
    /\ \E stuck \in SUBSET (Files(raw) \ {path}) :
         /\ raw' = cleanup_old_files(raw, path, stuck)
         /\ everStuck' = (everStuck \/ stuck # {})
         /\ run' = [run EXCEPT !.stuck = (@ \/ stuck # {}),
                              !.deleted = (@ \/ Files(raw) \ ({path} \cup stuck) # {}),
                               !.result = IF ds = "company" THEN "True" ELSE @]
    /\ cpc' = IF ds = "company" THEN "end" ELSE "norm"
    /\ UNCHANGED <<ds, today, final, fetched, path>>
    /\ UNCHANGED notCollect

\* process_and_save_final(raw_path) inside the try block: read the raw file,
\* normalise it, write the final file of today's date.  An exception of the
\* normalisation is caught by main's except Exception.
ProcessWrite ==
    /\ cpc = "norm"
    /\ IF NormRaises(ds, raw[path])
       THEN /\ cpc' = "fallback"
            /\ run' = [run EXCEPT !.failed = TRUE]
            /\ UNCHANGED <<final, path>>
       ELSE /\ final' = [final EXCEPT ![today] = Normalize(ds, raw[path])]
            /\ path' = today
            /\ run' = [run EXCEPT !.finalDate = today]
            /\ cpc' = "clean_final"
    /\ UNCHANGED <<ds, today, raw, fetched, everStuck>>
    /\ UNCHANGED notCollect

\* process_and_save_final: cleanup_old_files("..._*.csv", final_path,
\* FINAL_DATA_DIR); main then returns True.
ProcessCleanup ==
    /\ cpc = "clean_final"
    /\ \E stuck \in SUBSET (Files(final) \ {path}) :
         /\ final' = cleanup_old_files(final, path, stuck)
         /\ everStuck' = (everStuck \/ stuck # {})
         /\ run' = [run EXCEPT !.stuck = (@ \/ stuck # {}),
                              !.deleted = (@ \/ Files(final) \ ({path} \cup stuck) # {}), !.result = "True"]
    /\ cpc' = "end"
    /\ UNCHANGED <<ds, today, raw, fetched, path>>
    /\ UNCHANGED notCollect

\* A choice of the oldest raw file instead.
FallbackChoiceOldest(dir) == Oldest(dir)

\* except Exception: USE_FALLBACK is True; raw_files = glob("..._raw_*.csv");
\* the newest by date suffix is chosen.  Without a raw file main returns False
\* (industry, legal-dong) or falls off its end (company: returns None, and the
\* company collector only reports the file it found).
FallbackChoice(dir) == Latest(dir)

Fallback ==
    /\ cpc = "fallback"
    /\ IF Files(raw) = {}
       THEN /\ run' = [run EXCEPT !.result = IF ds = "company" THEN "None" ELSE "False"]
            /\ cpc' = "end"
            /\ UNCHANGED path
       ELSE /\ path' = FallbackChoice(raw)
            /\ IF ds = "company"
               THEN /\ run' = [run EXCEPT !.rawAtFb = TRUE, !.latestAtFb = Latest(raw),
                                          !.result = "None"]
                    /\ cpc' = "end"
               ELSE /\ run' = [run EXCEPT !.rawAtFb = TRUE, !.latestAtFb = Latest(raw)]
                    /\ cpc' = "fb_norm"
    /\ UNCHANGED <<ds, today, raw, final, fetched, everStuck>>
    /\ UNCHANGED notCollect

\* process_and_save_final(latest_raw) inside the except block: an exception
\* of the normalisation leaves main.
FallbackProcessWrite ==
    /\ cpc = "fb_norm"
    /\ IF NormRaises(ds, raw[path])
       THEN /\ cpc' = "end"
            /\ run' = [run EXCEPT !.normFrom = path, !.result = "raised"]
            /\ UNCHANGED <<final, path>>
       ELSE /\ final' = [final EXCEPT ![today] = Normalize(ds, raw[path])]
            /\ run' = [run EXCEPT !.normFrom = path, !.finalDate = today]
            /\ path' = today
            /\ cpc' = "fb_clean"
    /\ UNCHANGED <<ds, today, raw, fetched, everStuck>>
    /\ UNCHANGED notCollect

\* ... its cleanup_old_files; main then returns False.
FallbackProcessCleanup ==
    /\ cpc = "fb_clean"
    /\ \E stuck \in SUBSET (Files(final) \ {path}) :
         /\ final' = cleanup_old_files(final, path, stuck)
         /\ everStuck' = (everStuck \/ stuck # {})
         /\ run' = [run EXCEPT !.stuck = (@ \/ stuck # {}),
                              !.deleted = (@ \/ Files(final) \ ({path} \cup stuck) # {}), !.result = "False"]
    /\ cpc' = "end"
    /\ UNCHANGED <<ds, today, raw, fetched, path>>
    /\ UNCHANGED notCollect

\* main() is over; the next run of the step finds the directories as they are.
MainEnd ==
    /\ cpc = "end"
    /\ cpc' = "idle"
    /\ run' = NewRun
    /\ fetched' = NoFile
    /\ path' = 0
    /\ UNCHANGED <<ds, today, raw, final, everStuck>>
    /\ UNCHANGED notCollect

(***************************************************************************)
(* ReferenceDataManager("기업위치").save_to_csv(final_df), called by the    *)
(* processor that publishes the company final snapshot.                    *)
(***************************************************************************)
FinalContents == [ver : Versions, shape : {"final"}]

save_to_csv_write ==
    /\ cpc = "idle"
    /\ ds = "company"
    /\ \E c \in FinalContents : final' = [final EXCEPT ![today] = c]
    /\ path' = today
    /\ run' = [NewRun EXCEPT !.start = today, !.finalDate = today]
    /\ cpc' = "mgr_clean"
    /\ UNCHANGED <<ds, today, raw, fetched, everStuck>>
    /\ UNCHANGED notCollect

\* self._cleanup_old_files(csv_path); return csv_path
save_to_csv_cleanup ==
    /\ cpc = "mgr_clean"
    /\ \E stuck \in SUBSET (Files(final) \ {path}) :
         /\ final' = cleanup_old_files(final, path, stuck)
         /\ everStuck' = (everStuck \/ stuck # {})
         /\ run' = [run EXCEPT !.stuck = (@ \/ stuck # {}),
                              !.deleted = (@ \/ Files(final) \ ({path} \cup stuck) # {}), !.result = "saved"]
    /\ cpc' = "end"
    /\ UNCHANGED <<ds, today, raw, fetched, path>>
    /\ UNCHANGED notCollect

(***************************************************************************)
(* Claims about the collectors and the snapshot directories.               *)
(***************************************************************************)
(* DataPipeline.run_full_pipeline (data_pipeline/pipeline.py).  Each step  *)
(* is a `from <module> import main` statement followed by a call of that   *)
(* main inside try/except Exception.  The import statement stands before   *)
(* the try.  The last module, match_school_legal_dong_codes, holds two     *)
(* steps: its main() calls process_school_data('high_school') and then     *)
(* process_school_data('university') with no handler in between.           *)
(***************************************************************************)
Steps ==
    << [name |-> "industry_codes",     module |-> "collect_industry_codes"],
       [name |-> "legal_dong_codes",   module |-> "collect_legal_dong_codes"],
       [name |-> "dart_data",          module |-> "collect_dart_data"],
       [name |-> "add_coordinates",    module |-> "add_coordinates"],
       [name |-> "add_industry",       module |-> "add_industry_classification"],
       [name |-> "high_schools",       module |-> "collect_high_schools"],
       [name |-> "universities",       module |-> "collect_universities"],
       [name |-> "region_high_school", module |-> "match_school_legal_dong_codes"],
       [name |-> "region_university",  module |-> "match_school_legal_dong_codes"] >>

StepIds == 1..Len(Steps)

\* The step whose call begins the module's main(): the import statement of
\* a module stands before the first step of that module only.
FirstOfModule(i) == i = 1 \/ Steps[i - 1].module # Steps[i].module

LastOfModule(i) == i = Len(Steps) \/ Steps[i + 1].module # Steps[i].module

\* pipeline.py main: the method each --mode runs.
Modes == {"reference", "company", "school", "full"}

\* The steps of each method: run_reference_data_collection, run_company_pipeline,
\* run_school_pipeline, and run_full_pipeline, which calls the three in turn.
ModeSteps(mode) ==
    IF mode = "reference" THEN 1..2
    ELSE IF mode = "company" THEN 3..5
    ELSE IF mode = "school" THEN 6..9
    ELSE StepIds

\* Where control goes after the try/except around step i's call has ended:
\* to the import of the method's next module, or the method returns.
AfterHandler(mode, i) ==
    LET rest == {j \in ModeSteps(mode) : j > i /\ FirstOfModule(j)} IN
    IF rest = {} THEN [at |-> 0, phase |-> "returned"]
    ELSE [at |-> CHOOSE j \in rest : \A k \in rest : j <= k, phase |-> "import"]

\* `from data_pipeline... import main as ...`: the module loads, or the
\* statement raises; no handler encloses it, so run_full_pipeline raises.
ImportStep ==
    /\ ppc.phase = "import"
    /\ \E loads \in BOOLEAN :
           ppc' = IF loads THEN [ppc EXCEPT !.phase = "call"]
                  ELSE [at |-> ppc.at, phase |-> "raised"]
    /\ UNCHANGED <<pmode, attempted, failedSteps>>
    /\ UNCHANGED notPipeline

\* The call of a step.  An exception of the step leaves the module's main();
\* the orchestrator's except clause catches it and goes on with the step
\* after the try statement.
CallStep ==
    /\ ppc.phase = "call"
    /\ attempted' = attempted \cup {ppc.at}
    /\ \E raises \in BOOLEAN :
           /\ failedSteps' = IF raises THEN failedSteps \cup {ppc.at}
                             ELSE failedSteps
           /\ ppc' = IF raises \/ LastOfModule(ppc.at)
                     THEN AfterHandler(pmode, ppc.at)
                     ELSE [at |-> ppc.at + 1, phase |-> "call"]
    /\ UNCHANGED pmode
    /\ UNCHANGED notPipeline

\* The method begins with the import of its first step's module.
PipelineStart(mode) ==
    [at |-> CHOOSE i \in ModeSteps(mode) : \A j \in ModeSteps(mode) : i <= j,
     phase |-> "import"]

\* A finished run is followed by the next run of the orchestrator, in any
\* mode.
PipelineAgain ==
    /\ ppc.phase \in {"returned", "raised"}
    /\ \E mode \in Modes :
           /\ pmode' = mode
           /\ ppc' = PipelineStart(mode)
    /\ attempted' = {}
    /\ failedSteps' = {}
    /\ UNCHANGED notPipeline

(***************************************************************************)
(* SyncMatcher (matching/matcher.py): values of the input file and of the  *)
(* output file.  An input row has an adid text, may lack a coordinate, has *)
(* a time_type and, when it is queried, gets the backend's answer `ans` to *)
(* its sub-query.  pandas types the adid column per chunk when it parses   *)
(* it and per written segment when it formats it.                          *)
(***************************************************************************)
AdidTexts == {"7", "ab", ""}

TimeTypes == {"DAY", "NIGHT"}

\* What the backend returns for one sub-query: a hit, hits.total.value = 0,
\* an entry with an 'error' key, or an entry with neither 'error' nor a
\* usable 'hits' object.
Answers == {"hit", "nohit", "error", "malformed"}

NaN == [t |-> "nan", s |-> ""]

\* pd.read_csv(input_csv, chunksize=...): the dtype of the adid column of one
\* chunk, from the texts of all rows of the chunk.
ColumnDtype(texts) ==
    IF \E x \in texts : x \notin {"7", ""} THEN "object"
    ELSE IF "" \in texts THEN "float64"
    ELSE "int64"

\* The parsed value of one adid cell in a column of the given dtype.
ParseCell(text, dtype) ==
    IF text = "" THEN NaN
    ELSE IF dtype = "object" THEN [t |-> "str", s |-> text]
    ELSE IF dtype = "float64" THEN [t |-> "float", s |-> text]
    ELSE [t |-> "int", s |-> text]

\* user_chunk.iterrows(): a row of a frame whose columns are all numeric is a
\* float64 Series; with an object column the cells keep their types.
IterrowsCell(v, has_object_column) ==
    IF ~has_object_column /\ v.t = "int" THEN [t |-> "float", s |-> v.s]
    ELSE v

\* pd.DataFrame(results): the dtype of the adid column of one written segment.
SegmentDtype(values) ==
    IF \E v \in values : v.t = "str" THEN "object"
    ELSE IF \A v \in values : v.t = "int" THEN "int64"
    ELSE "float64"

\* df.to_csv: the text written for one adid cell.
FormatCell(v, dtype) ==
    IF v.t = "nan" THEN ""
    ELSE IF v.t = "str" THEN v.s
    ELSE IF v.t = "float" \/ dtype = "float64" THEN v.s \o ".0"
    ELSE v.s

\* The increasing sequence of the elements of a finite set of integers.
RECURSIVE SortedSeq(_)
SortedSeq(S) ==
    IF S = {} THEN <<>>
    ELSE LET m == CHOOSE x \in S : \A y \in S : x <= y
         IN <<m>> \o SortedSeq(S \ {m})

\* The read chunk: its rows with their position in the file.
ChunkRows(input, from, chunk_size) ==
    LET to == IF from + chunk_size - 1 < Len(input)
              THEN from + chunk_size - 1 ELSE Len(input)
    IN [i \in 1..(to - from + 1) |->
            [id |-> from + i - 1, row |-> input[from + i - 1]]]

\* match_locations lines 252-270: the DAY filter of a company run whose input
\* has a time_type column, dropna on lat/lon, and the (lat, lon, adid) list.
UserLocations(chunk, place_type, time_col) ==
    LET dtype == ColumnDtype({chunk[i].row.adid : i \in 1..Len(chunk)})
        has_object == time_col \/ dtype = "object"
        day == IF place_type = "company" /\ time_col
               THEN SelectSeq(chunk, LAMBDA c : c.row.time = "DAY")
               ELSE chunk
        located == SelectSeq(day, LAMBDA c : c.row.coord)
    IN [i \in 1..Len(located) |->
            [id |-> located[i].id,
             adid |-> IterrowsCell(ParseCell(located[i].row.adid, dtype),
                                   has_object),
             ans |-> located[i].row.ans]]

\* batch_find_nearest_places_parallel lines 190-193: consecutive slices of
\* batch_size locations, each with the index of its first location.
Batches(user_locations, batch_size) ==
    {[i |-> i,
      batch |-> SubSeq(user_locations, i + 1,
                       IF i + batch_size < Len(user_locations)
                       THEN i + batch_size ELSE Len(user_locations))] :
        i \in {k \in 0..(Len(user_locations) - 1) : k % batch_size = 0}}

(***************************************************************************)
(* sync_msearch's result and process_batch.                                *)
(***************************************************************************)
\* The msearch body holds one sub-query per location of the batch, in order;
\* the backend's 'responses' list answers them position by position.
Backend(batch) ==
    [i \in 1..Len(batch) |-> [kind |-> batch[i].ans, q |-> batch[i].id]]

\* What sync_msearch returns: None, a JSON object without a 'responses' key,
\* or the JSON object with the 'responses' list.
NoResponse == [status |-> "None", responses |-> <<>>]

OtherJson == [status |-> "other", responses |-> <<>>]

Responses(batch) == [status |-> "responses", responses |-> Backend(batch)]

SchoolFields == {"fac_cd", "ctp_cd", "sig_cd", "emd_cd"}

CompanyFields == {"corp_cd", "corp_depth1_cd", "corp_depth2_cd",
                  "corp_depth3_cd", "corp_depth4_cd", "corp_depth5_cd",
                  "ctp_cd", "sig_cd", "emd_cd"}

\* process_batch lines 137-142: resp['hits'] of an entry that has neither an
\* 'error' key nor a 'hits' object raises, and nothing in process_batch
\* catches it.
ProcessBatchRaises(response) ==
    \E i \in 1..Len(response.responses) :
        response.responses[i].kind = "malformed"

\* A pairing of the k-th hit with the k-th location of the batch.
ProcessBatchByRank(batch, place_type, response) ==
    IF response.status # "responses" THEN <<>>
    ELSE LET resps == response.responses
             idxs == SortedSeq({i \in 1..Len(resps) : resps[i].kind = "hit"})
         IN [k \in 1..Len(idxs) |->
                [id |-> batch[k].id,
                 adid |-> batch[k].adid,
                 hit |-> resps[idxs[k]].q,
                 fields |-> IF place_type \in {"high_school", "university"}
                            THEN SchoolFields ELSE CompanyFields]]

\* process_batch lines 132-174: the result records of the batch, one per
\* sub-response with a hit, in the order of the responses.  `id` stands for
\* the lat and lon of the location, `hit` for the distance and the source
\* fields of the hit.
process_batch(batch, place_type, response) ==
    IF response.status # "responses" THEN <<>>
    ELSE LET resps == response.responses
             idxs == SortedSeq({i \in 1..Len(resps) : resps[i].kind = "hit"})
         IN [k \in 1..Len(idxs) |->
                [id |-> batch[idxs[k]].id,
                 adid |-> batch[idxs[k]].adid,
                 hit |-> resps[idxs[k]].q,
                 fields |-> IF place_type \in {"high_school", "university"}
                            THEN SchoolFields ELSE CompanyFields]]

(***************************************************************************)
(* The output file: whether it exists, how many header lines it holds and  *)
(* its data lines.                                                         *)
(***************************************************************************)
NoOutput == [exists |-> FALSE, header |-> 0, rows |-> <<>>]

\* An output file left by an earlier matching run.
StaleOutput ==
    [exists |-> TRUE, header |-> 1,
     rows |-> <<[id |-> 0, adid |-> "old", hit |-> 0, fields |-> SchoolFields]>>]

\* pd.DataFrame(results).to_csv(...): the data lines of one segment.
Lines(rs) ==
    LET dtype == SegmentDtype({rs[i].adid : i \in 1..Len(rs)})
    IN [i \in 1..Len(rs) |->
            [rs[i] EXCEPT !.adid = FormatCell(rs[i].adid, dtype)]]

\* _save_results: nothing for an empty list; mode 'w' replaces the file,
\* mode 'a' appends to it; header=True writes the header line first.
save_results(file, rs, mode, header) ==
    IF rs = <<>> THEN file
    ELSE [exists |-> TRUE,
          header |-> (IF mode = "w" THEN 0 ELSE file.header)
                     + (IF header THEN 1 ELSE 0),
          rows |-> (IF mode = "w" THEN <<>> ELSE file.rows) \o Lines(rs)]

\* A save that is due only above the interval.
SaveDueStrict(n, interval) == n > interval

\* match_locations line 285: the intermediate save is due.
SaveDue(n, interval) == n >= interval

(***************************************************************************)
(* sync_msearch and process_batch for one batch, request by request.       *)
(***************************************************************************)
MAX_RETRIES == 3

\* What one requests.post can end in: status 200 with the 'responses' list,
\* status 200 with a JSON object that has no 'responses' key, status 200 with
\* a body response.json() cannot read, another status, or an exception of
\* requests.post.
HttpFailures == {"status", "exception", "body"}

HttpOutcomes == {"responses", "other"} \cup HttpFailures

\* A loop that retries without a limit.
RetryAlways(a) == TRUE

\* lines 75 and 81: `if attempt < self.max_retries - 1: continue`.
RetryAllowed(a) == a < MAX_RETRIES - 1

\* One pass of the loop of sync_msearch (lines 60-83): the request is sent;
\* a readable 200 response is returned; after a failure the loop continues
\* when a retry is allowed and returns None otherwise.
Post ==
    /\ spc = "loop"
    /\ \E o \in HttpOutcomes :
         /\ requests' = Append(requests, o)
         /\ IF o = "responses"
            THEN /\ sresponse' = Responses(sbatch)
                 /\ spc' = "returned"
                 /\ UNCHANGED attempt
            ELSE IF o = "other"
            THEN /\ sresponse' = OtherJson
                 /\ spc' = "returned"
                 /\ UNCHANGED attempt
            ELSE IF RetryAllowed(attempt)
            THEN /\ attempt' = attempt + 1
                 /\ UNCHANGED <<sresponse, spc>>
            ELSE /\ sresponse' = NoResponse
                 /\ spc' = "returned"
                 /\ UNCHANGED attempt
    /\ UNCHANGED <<sbatch, splace, sout>>
    /\ UNCHANGED notMsearch

\* process_batch lines 130-174 after sync_msearch has returned.
ProcessBatchEnds ==
    /\ spc = "returned"
    /\ sout' = IF ProcessBatchRaises(sresponse)
               THEN [raised |-> TRUE, results |-> <<>>]
               ELSE [raised |-> FALSE,
                     results |-> process_batch(sbatch, splace, sresponse)]
    /\ spc' = "done"
    /\ UNCHANGED <<sbatch, splace, attempt, requests, sresponse>>
    /\ UNCHANGED notMsearch

(***************************************************************************)
(* batch_find_nearest_places_parallel with its ThreadPoolExecutor: the     *)
(* batches are submitted in order, at most self.concurrency of them run at *)
(* a time, and as_completed yields them as they complete.                  *)
(***************************************************************************)
BatchAt(i) == CHOOSE b \in Batches(wlocs, wcfg.batch_size) : b.i = i

\* What sync_msearch returns for the batch that starts at location i.
ResponseOf(i) ==
    IF i \in wcfg.lost THEN NoResponse ELSE Responses(BatchAt(i).batch)

\* lines 187-199: the batches are built and every one is submitted.
PoolSubmit ==
    /\ wpc = "start"
    /\ queued' = SortedSeq({b.i : b \in Batches(wlocs, wcfg.batch_size)})
    /\ wpc' = "collect"
    /\ UNCHANGED <<wlocs, wcfg, running, finished, yielded, wresults>>
    /\ UNCHANGED notPool

\* A free worker thread takes the batch submitted first; the threads go on
\* while the with statement waits for them after an exception.
WorkerTakes ==
    /\ wpc \in {"collect", "shutdown"}
    /\ queued # <<>>
    /\ Cardinality(running) < wcfg.concurrency
    /\ running' = running \cup {Head(queued)}
    /\ queued' = Tail(queued)
    /\ UNCHANGED <<wlocs, wcfg, finished, yielded, wresults, wpc>>
    /\ UNCHANGED notPool

\* process_batch ends in a worker thread, with a result or an exception.
WorkerEnds ==
    /\ wpc \in {"collect", "shutdown"}
    /\ \E i \in running :
         /\ running' = running \ {i}
         /\ finished' = finished \cup {i}
    /\ UNCHANGED <<wlocs, wcfg, queued, yielded, wresults, wpc>>
    /\ UNCHANGED notPool

\* lines 203-206: as_completed yields a completed future; future.result()
\* gives the batch's results, which are appended, or re-raises; the
\* exception leaves the loop and reaches the end of the with statement.
PoolCollect ==
    /\ wpc = "collect"
    /\ \E i \in finished :
         /\ finished' = finished \ {i}
         /\ yielded' = Append(yielded, i)
         /\ IF ProcessBatchRaises(ResponseOf(i))
            THEN /\ wpc' = "shutdown"
                 /\ UNCHANGED wresults
            ELSE /\ wresults' = wresults \o
                        process_batch(BatchAt(i).batch, wcfg.place_type,
                                      ResponseOf(i))
                 /\ UNCHANGED wpc
    /\ UNCHANGED <<wlocs, wcfg, queued, running>>
    /\ UNCHANGED notPool

\* line 196, ThreadPoolExecutor.__exit__ with an exception under way:
\* shutdown(wait=True) returns when every submitted batch has run, and the
\* exception leaves batch_find_nearest_places_parallel.
PoolRaise ==
    /\ wpc = "shutdown"
    /\ queued = <<>> /\ running = {}
    /\ wpc' = "raised"
    /\ UNCHANGED <<wlocs, wcfg, queued, running, finished, yielded, wresults>>
    /\ UNCHANGED notPool

\* line 208: every future has been yielded.
PoolReturn ==
    /\ wpc = "collect"
    /\ queued = <<>> /\ running = {} /\ finished = {}
    /\ wpc' = "returned"
    /\ UNCHANGED <<wlocs, wcfg, queued, running, finished, yielded, wresults>>
    /\ UNCHANGED notPool

(***************************************************************************)
(* SyncMatcher.match_locations.                                            *)
(***************************************************************************)
PlaceTypes == {"company", "high_school", "university"}

\* The rows of an input file.  Only a queried row has an answer: a row
\* without a coordinate is written with time DAY and answer "nohit", and a
\* NIGHT row is one the backend would match.
InputRows ==
    {r \in [adid : AdidTexts, coord : BOOLEAN, time : TimeTypes, ans : Answers] :
        /\ ~r.coord => r.time = "DAY" /\ r.ans = "nohit"
        /\ r.time = "NIGHT" => r.ans = "hit"}

NoInput == [exists |-> FALSE, time_col |-> FALSE, rows |-> <<>>]

\* The input files: with or without a time_type column (without it every row
\* is written with time DAY), of at most MaxRows rows, or missing.
InputFiles ==
    {NoInput} \cup
    UNION {[exists : {TRUE}, time_col : {tc},
            rows : UNION {[1..n -> IF tc THEN InputRows
                                    ELSE {r \in InputRows : r.time = "DAY"}] :
                          n \in 0..MaxRows}] : tc \in BOOLEAN}

\* self.chunk_size, self.batch_size and INTERMEDIATE_SAVE_INTERVAL, scaled to
\* the size of the input files.
ChunkSizes == {1, 2}

BatchSizes == {1, 2}

SaveIntervals == {1, 2}

\* The jobs: a company job and a school job (a university job differs from
\* a high school job in the names of its files only).
Jobs == [place_type : {"company", "high_school"}, chunk_size : ChunkSizes,
         batch_size : BatchSizes, interval : SaveIntervals]

\* lines 229-247: the input file is missing and match_locations returns
\* False, or the locals are set and the chunk iterator is opened.
MatchStart ==
    /\ mpc = "start"
    /\ IF input_csv.exists
       THEN /\ mpc' = "chunk"
            /\ UNCHANGED mret
       ELSE /\ mpc' = "done"
            /\ mret' = "False"
    /\ UNCHANGED <<job, input_csv, output_csv, mpos, futures, completed, results,
                   nloc,                   all_results, processed_count, matched_count, first_write,
                   collected, abandoned, saves>>
    /\ UNCHANGED notMatch

\* lines 249-276, 196-199: the next chunk is read and filtered; an empty
\* remainder goes on with the next chunk, otherwise every batch of the chunk
\* is submitted to the executor.
ReadChunk ==
    /\ mpc = "chunk"
    /\ mpos < Len(input_csv.rows)
    /\ LET chunk == ChunkRows(input_csv.rows, mpos + 1, job.chunk_size)
           user_locations == UserLocations(chunk, job.place_type,
                                           input_csv.time_col)
       IN /\ mpos' = mpos + Len(chunk)
          /\ IF user_locations = <<>>
             THEN UNCHANGED <<mpc, futures, results, nloc>>
             ELSE /\ mpc' = "batches"
                  /\ futures' = Batches(user_locations, job.batch_size)
                  /\ results' = <<>>
                  /\ nloc' = Len(user_locations)
    /\ UNCHANGED <<job, input_csv, output_csv, completed, all_results,
                   processed_count, matched_count, first_write, mret,
                   collected, abandoned, saves>>
    /\ UNCHANGED notMatch

\* process_batch in a worker thread (lines 87-174): one submitted batch ends,
\* in any order; sync_msearch has returned the responses or, after its last
\* failed attempt, None.  The results or the exception stay in the future.
\* Once the collecting loop has been left the batches still submitted run,
\* and nothing reads their outcome.
BatchEnds ==
    /\ mpc \in {"batches", "shutdown"}
    /\ \E f \in futures, answered \in BOOLEAN :
         LET response == IF answered THEN Responses(f.batch) ELSE NoResponse
         IN /\ abandoned' = (abandoned \/ ~answered)
            /\ futures' = futures \ {f}
            /\ completed' =
                  IF mpc = "shutdown" THEN completed
                  ELSE completed \cup
                       {[i |-> f.i,
                         raises |-> ProcessBatchRaises(response),
                         results |-> process_batch(f.batch, job.place_type,
                                                   response)]}
    /\ UNCHANGED <<job, input_csv, output_csv, mpc, mpos, results, nloc,
                   all_results, processed_count, matched_count, first_write,
                   mret, collected, saves>>
    /\ UNCHANGED notMatch

\* lines 203-206: as_completed yields an ended batch, while others may still
\* run.  Its results are collected, or future.result() re-raises what
\* process_batch raised and the exception leaves the loop.
BatchCompletes ==
    /\ mpc = "batches"
    /\ \E d \in completed :
         IF d.raises
         THEN /\ mpc' = "shutdown"
              /\ completed' = {}
              /\ UNCHANGED <<results, collected>>
         ELSE /\ completed' = completed \ {d}
              /\ results' = results \o d.results
              /\ collected' = collected \o d.results
              /\ UNCHANGED mpc
    /\ UNCHANGED <<job, input_csv, output_csv, mpos, futures, nloc, all_results,
                   processed_count, matched_count, first_write, mret,
                   abandoned, saves>>
    /\ UNCHANGED notMatch

\* The with statement of line 196 has waited for every batch of the chunk;
\* the exception leaves batch_find_nearest_places_parallel and
\* match_locations' handler (lines 310-314) returns False.
BatchRaises ==
    /\ mpc = "shutdown"
    /\ futures = {}
    /\ mpc' = "done"
    /\ mret' = "False"
    /\ UNCHANGED <<job, input_csv, output_csv, mpos, futures, completed, results,
                   nloc, all_results, processed_count, matched_count,
                   first_write, collected, abandoned, saves>>
    /\ UNCHANGED notMatch

\* lines 278-280: the chunk's results join the accumulated ones.
ExtendResults ==
    /\ mpc = "batches"
    /\ futures = {}
    /\ completed = {}
    /\ all_results' = all_results \o results
    /\ processed_count' = processed_count + nloc
    /\ matched_count' = matched_count + Len(results)
    /\ mpc' = "save"
    /\ UNCHANGED <<job, input_csv, output_csv, mpos, futures, completed, results,
                   nloc,                   first_write, mret, collected, abandoned, saves>>
    /\ UNCHANGED notMatch

\* lines 285-291: the intermediate save.
IntermediateSave ==
    /\ mpc = "save"
    /\ IF SaveDue(Len(all_results), job.interval)
       THEN /\ output_csv' = IF first_write
                             THEN save_results(output_csv, all_results, "w", TRUE)
                             ELSE save_results(output_csv, all_results, "a", FALSE)
            /\ saves' = Append(saves, [mode |-> IF first_write THEN "w" ELSE "a",
                                        header |-> first_write,
                                        lines |-> Lines(all_results)])
            /\ first_write' = FALSE
            /\ all_results' = <<>>
       ELSE UNCHANGED <<output_csv, first_write, all_results, saves>>
    /\ mpc' = "chunk"
    /\ UNCHANGED <<job, input_csv, mpos, futures, completed, results, nloc,
                   processed_count, matched_count, mret, collected, abandoned>>
    /\ UNCHANGED notMatch

\* lines 294-298: the save at the end of the stream.
FinalSave ==
    /\ mpc = "chunk"
    /\ mpos = Len(input_csv.rows)
    /\ output_csv' = IF all_results = <<>> THEN output_csv
                     ELSE IF first_write
                     THEN save_results(output_csv, all_results, "w", TRUE)
                     ELSE save_results(output_csv, all_results, "a", FALSE)
    /\ saves' = IF all_results = <<>> THEN saves
                ELSE Append(saves, [mode |-> IF first_write THEN "w" ELSE "a",
                                    header |-> first_write,
                                    lines |-> Lines(all_results)])
    /\ mpc' = "report"
    /\ UNCHANGED <<job, input_csv, mpos, futures, completed, results, nloc, all_results,
                   processed_count, matched_count, first_write, mret,
                   collected, abandoned>>
    /\ UNCHANGED notMatch

\* lines 300-314: the summary divides by processed_count; with no processed
\* row the ZeroDivisionError reaches the handler, which returns False.
Report ==
    /\ mpc = "report"
    /\ mret' = IF processed_count = 0 THEN "False" ELSE "True"
    /\ mpc' = "done"
    /\ UNCHANGED <<job, input_csv, output_csv, mpos, futures, completed, results,
                   nloc,                   all_results, processed_count, matched_count, first_write,
                   collected, abandoned, saves>>
    /\ UNCHANGED notMatch

(***************************************************************************)
(* match_locations against an index: the backend answers every sub-query   *)
(* from the documents it holds.  Positions lie on one line, in units of    *)
(* 100 m; the input is smaller than INTERMEDIATE_SAVE_INTERVAL, so the     *)
(* output is written once, after the last chunk.                           *)
(***************************************************************************)
\* ElasticsearchConfig.GEO_SEARCH_CONFIG, the distances in metres.
GEO_SEARCH_CONFIG ==
    [high_school |-> 200, university |-> 300, company |-> 200]

\* The fallback distance for every place type.
GetDistanceDefault(place_type) == 300

\* get_distance: self.distance_config.get(place_type, '300m').
get_distance(place_type) ==
    IF place_type \in DOMAIN GEO_SEARCH_CONFIG
    THEN GEO_SEARCH_CONFIG[place_type] ELSE 300

\* process_batch lines 97-124: one sub-query per location of the batch, in
\* order: the term filter, the geo_distance filter around the location, the
\* ascending _geo_distance sort in metres and size 1.
SearchBody(batch, place_type) ==
    [i \in 1..Len(batch) |->
        [term |-> place_type,
         distance |-> get_distance(place_type),
         location |-> batch[i].id,
         order |-> "asc",
         size |-> 1]]

\* The distance in metres between two positions.
Metres(a, b) == 100 * (IF a > b THEN a - b ELSE b - a)

\* The backend's answer to one sub-query: the documents of the type within
\* the distance of the location, the nearest first, cut to one hit; the hit
\* carries its sort value and its source.
EsSearch(query, rows, index) ==
    LET at == rows[query.location].pos
        docs == {d \in index : /\ d.place_type = query.term
                               /\ Metres(at, d.pos) <= query.distance}
    IN IF docs = {}
       THEN [kind |-> "nohit", q |-> [sort |-> 0, source |-> 0]]
       ELSE LET hit == CHOOSE d \in docs :
                           \A e \in docs : Metres(at, d.pos) <= Metres(at, e.pos)
            IN [kind |-> "hit",
                q |-> [sort |-> Metres(at, hit.pos), source |-> hit.pos]]

\* What sync_msearch returns when the request succeeds.
EsResponses(body, rows, index) ==
    [status |-> "responses",
     responses |-> [i \in 1..Len(body) |-> EsSearch(body[i], rows, index)]]

\* lines 249-276, 190-199: the next chunk is read and filtered and its batches
\* are submitted; with no row left in the chunk the loop goes on.
GeoReadChunk ==
    /\ gpc = "chunk"
    /\ gpos < Len(gin.rows)
    /\ LET chunk == ChunkRows(gin.rows, gpos + 1, gcfg.chunk_size)
           user_locations == UserLocations(chunk, gcfg.place_type, gin.time_col)
       IN /\ gpos' = gpos + Len(chunk)
          /\ IF user_locations = <<>>
             THEN UNCHANGED <<gpc, gpending>>
             ELSE /\ gpc' = "batches"
                  /\ gpending' = Batches(user_locations, gcfg.batch_size)
    /\ UNCHANGED <<gin, gcfg, gindex, gflight, gdone, gsent, gfailed, gresults,
                   gout>>
    /\ UNCHANGED notGeo

\* What a request with status 200 brings: the backend's answer, or a body
\* with an entry that has neither 'error' nor 'hits'.
GeoAnswers == {"responses", "malformed"}

GeoResponse(answer, body) ==
    IF answer = "responses" THEN EsResponses(body, gin.rows, gindex)
    ELSE [status |-> "responses",
          responses |-> [i \in 1..Len(body) |->
                            [kind |-> "malformed",
                             q |-> [sort |-> 0, source |-> 0]]]]

\* process_batch in a worker thread, lines 97-130 and 60-69: the body of a
\* submitted batch is built and the first request is sent, while the
\* requests of other batches may be under way.
GeoSend ==
    /\ gpc \in {"batches", "shutdown"}
    /\ \E b \in gpending :
         /\ gsent' = Append(gsent, SearchBody(b.batch, gcfg.place_type))
         /\ gpending' = gpending \ {b}
         /\ gflight' = gflight \cup {[i |-> b.i, batch |-> b.batch, attempt |-> 0]}
    /\ UNCHANGED <<gin, gcfg, gindex, gpos, gdone, gfailed, gresults, gout, gpc>>
    /\ UNCHANGED notGeo

\* sync_msearch lines 73-83 and 60-69: a request fails and, a retry being
\* allowed, the same body is sent again.
GeoRetry ==
    /\ gpc \in {"batches", "shutdown"}
    /\ \E w \in gflight :
         /\ RetryAllowed(w.attempt)
         /\ gsent' = Append(gsent, SearchBody(w.batch, gcfg.place_type))
         /\ gflight' = (gflight \ {w}) \cup {[w EXCEPT !.attempt = @ + 1]}
    /\ gfailed' = TRUE
    /\ UNCHANGED <<gin, gcfg, gindex, gpos, gpending, gdone, gresults, gout, gpc>>
    /\ UNCHANGED notGeo

\* sync_msearch lines 71-72, 77, 83 and process_batch lines 132-174: the
\* request under way is answered, or it fails with no retry left and
\* sync_msearch returns None; process_batch returns its results, and a
\* response entry without 'error' and 'hits' raises.  Once the collecting
\* loop has been left nobody reads the outcome.
GeoBatch ==
    /\ gpc \in {"batches", "shutdown"}
    /\ \E w \in gflight, answered \in BOOLEAN, answer \in GeoAnswers :
         LET body == SearchBody(w.batch, gcfg.place_type)
             response == IF answered THEN GeoResponse(answer, body)
                         ELSE NoResponse
         IN /\ ~answered => (~RetryAllowed(w.attempt) /\ answer = "responses")
            /\ gfailed' = (gfailed \/ ~answered)
            /\ gflight' = gflight \ {w}
            /\ gdone' = IF gpc = "shutdown" THEN gdone
                        ELSE gdone \cup
                             {[i |-> w.i,
                               raises |-> ProcessBatchRaises(response),
                               results |-> process_batch(w.batch, gcfg.place_type,
                                                         response)]}
    /\ UNCHANGED <<gin, gcfg, gindex, gpos, gpending, gsent, gresults, gout, gpc>>
    /\ UNCHANGED notGeo

\* lines 203-206, 278: as_completed yields a completed batch, while others
\* may still run; its results are collected, or future.result() re-raises
\* and the executor is left.
GeoCollect ==
    /\ gpc = "batches"
    /\ \E d \in gdone :
         IF d.raises
         THEN /\ gpc' = "shutdown"
              /\ gdone' = {}
              /\ UNCHANGED gresults
         ELSE /\ gdone' = gdone \ {d}
              /\ gresults' = gresults \o d.results
              /\ gpc' = IF gpending = {} /\ gflight = {} /\ gdone' = {}
                        THEN "chunk" ELSE "batches"
    /\ UNCHANGED <<gin, gcfg, gindex, gpos, gpending, gflight, gsent, gfailed,
                   gout>>
    /\ UNCHANGED notGeo

\* lines 196 and 310-314: ThreadPoolExecutor.__exit__ waits until every
\* submitted batch has run; then the exception leaves the with block and
\* match_locations catches it.
GeoRaise ==
    /\ gpc = "shutdown"
    /\ gpending = {}
    /\ gflight = {}
    /\ gpc' = "raised"
    /\ UNCHANGED <<gin, gcfg, gindex, gpos, gpending, gflight, gdone, gsent,
                   gfailed, gresults, gout>>
    /\ UNCHANGED notGeo

\* lines 296-299: after the last chunk the results are written.
GeoSave ==
    /\ gpc = "chunk"
    /\ gpos >= Len(gin.rows)
    /\ gout' = save_results(gout, gresults, "w", TRUE)
    /\ gpc' = "done"
    /\ UNCHANGED <<gin, gcfg, gindex, gpos, gpending, gflight, gdone, gsent,
                   gfailed, gresults>>
    /\ UNCHANGED notGeo

(***************************************************************************)
(* The collectors and processors that work row by row.  A row is known by  *)
(* its number in the input (`key`); an output row records the input row    *)
(* its own columns come from (`row`) and the input row whose task or loop  *)
(* step produced its added columns (`from`, `failed`).                     *)
(***************************************************************************)
PoolProcessors == {"collect_all_company_info", "add_coordinates_to_dataframe"}

LoopProcessors == {"add_industry_classification", "high_school", "university"}

\* process_school_data lines 350-355: a university run drops the rows whose
\* fac_nm contains '대학원'; the rows keep their index labels.
SchoolFrame(school_type, df) ==
    IF school_type = "university"
    THEN SelectSeq(df, LAMBDA r : ~r.grad)
    ELSE df

\* add_coordinates_to_dataframe line 78, df['adres'].str.strip(): the .str
\* accessor raises AttributeError for a column that holds rows and no string
\* (read_csv gives it the dtype float64); the column of an empty frame and a
\* column with a string have the dtype object.
StrAccessorRaises(df) == df # <<>> /\ \A i \in 1..Len(df) : ~df[i].text

\* The frame handed to the processor; an empty frame raises ZeroDivisionError
\* in the closing report of every processor.  add_coordinates_to_dataframe
\* counts the valid addresses first, which raises before any task is
\* submitted when the address column holds no string.
RowsStart ==
    /\ epc = "start"
    /\ ework' = IF eproc \in {"high_school", "university"}
                THEN SchoolFrame(eproc, edf) ELSE edf
    /\ IF eproc = "add_coordinates_to_dataframe" /\ StrAccessorRaises(edf)
       THEN /\ etasks' = {}
            /\ epc' = "raised"
       ELSE IF eproc \in PoolProcessors
       THEN \* one task per row of df.iterrows(), submitted with its idx
            /\ etasks' = {i - 1 : i \in 1..Len(edf)}
            /\ epc' = "pool"
       ELSE /\ etasks' = {}
            /\ epc' = "loop"
    /\ UNCHANGED <<eproc, edf, eresults, ecursor, eout>>
    /\ UNCHANGED notRows

\* as_completed: a task completes, in any order.  It returns its idx with its
\* result, or it raises and the handler finds its idx in the futures dict;
\* process_single_address raises for an address that is NaN.
RowsTaskCompletes ==
    /\ epc = "pool"
    /\ \E idx \in etasks, fails \in BOOLEAN :
         /\ (eproc = "add_coordinates_to_dataframe" /\ ~ework[idx + 1].text)
                => fails
         /\ etasks' = etasks \ {idx}
         /\ eresults' = eresults \cup {[idx |-> idx, failed |-> fails]}
    /\ UNCHANGED <<eproc, edf, ework, ecursor, eout, epc>>
    /\ UNCHANGED notRows

\* sorted_results = [results[idx] for idx in sorted(results.keys())]; the
\* lists are set as columns of df, or become the rows of the new frame.
RowsAssemble ==
    /\ epc = "pool"
    /\ etasks = {}
    /\ IF Len(ework) = 0
       THEN /\ epc' = "raised"
            /\ UNCHANGED eout
       ELSE /\ epc' = "done"
            /\ LET order == SortedSeq({r.idx : r \in eresults})
                   at(i) == CHOOSE r \in eresults : r.idx = order[i]
               IN eout' = [i \in 1..Len(order) |->
                              [row |-> IF eproc = "collect_all_company_info"
                                       THEN ework[order[i] + 1].key
                                       ELSE ework[i].key,
                               from |-> at(i).idx + 1,
                               failed |-> at(i).failed]]
    /\ UNCHANGED <<eproc, edf, ework, etasks, eresults, ecursor>>
    /\ UNCHANGED notRows

\* for idx, row in df.iterrows(): the next row is handled; a lookup that
\* fails leaves the added columns empty.
RowsLoopStep ==
    /\ epc = "loop"
    /\ ecursor < Len(ework)
    /\ \E fails \in BOOLEAN :
         eresults' = eresults \cup {[idx |-> ecursor,
                                     key |-> ework[ecursor + 1].key,
                                     failed |-> fails]}
    /\ ecursor' = ecursor + 1
    /\ UNCHANGED <<eproc, edf, ework, etasks, eout, epc>>
    /\ UNCHANGED notRows

\* The loop is over: add_industry_classification returns df; the school
\* processors join df.reset_index(drop=True) with the region frame by
\* position (lines 366-389).
RowsLoopEnd ==
    /\ epc = "loop"
    /\ ecursor = Len(ework)
    /\ IF Len(ework) = 0
       THEN /\ epc' = "raised"
            /\ UNCHANGED eout
       ELSE /\ epc' = "done"
            /\ LET at(i) == CHOOSE r \in eresults : r.idx = i - 1
               IN eout' = [i \in 1..Len(ework) |->
                              [row |-> ework[i].key,
                               from |-> at(i).key,
                               failed |-> at(i).failed]]
    /\ UNCHANGED <<eproc, edf, ework, etasks, eresults, ecursor>>
    /\ UNCHANGED notRows

(***************************************************************************)
(* Address strings.  A string is a sequence of characters; "F" stands for  *)
(* the character 층, "H" for 호, "B" for the word 지하, "1" for a digit and  *)
(* "a" for any other character.  A value is a string, None or NaN.         *)
(***************************************************************************)
Chars == {" ", "a", "1", "F", "H", "(", ")", "B"}

Str(s) == [kind |-> "str", s |-> s]

None == [kind |-> "None", s |-> <<>>]

NaNValue == [kind |-> "nan", s |-> <<>>]

\* str.strip()
RECURSIVE Strip(_)
Strip(s) ==
    IF s = <<>> THEN s
    ELSE IF Head(s) = " " THEN Strip(Tail(s))
    ELSE IF s[Len(s)] = " " THEN Strip(SubSeq(s, 1, Len(s) - 1))
    ELSE s

\* The length of the longest run of characters of C that starts at s[i].
RECURSIVE Run(_, _, _)
Run(s, i, C) ==
    IF i > Len(s) \/ s[i] \notin C THEN 0 ELSE 1 + Run(s, i + 1, C)

Skip(s, i, c) == IF i <= Len(s) /\ s[i] = c THEN 1 ELSE 0

\* The length of the match of r'\([^)]*\)' that starts at s[i], or 0.
MatchParen(s, i) ==
    IF s[i] = "(" /\ \E j \in (i + 1)..Len(s) : s[j] = ")"
    THEN (CHOOSE j \in (i + 1)..Len(s) :
              s[j] = ")" /\ \A k \in (i + 1)..(j - 1) : s[k] # ")") - i + 1
    ELSE 0

\* The length of the match of r'지하\s*\d+\s*층?' that starts at s[i], or 0.
MatchBasement(s, i) ==
    IF s[i] # "B" THEN 0
    ELSE LET a == Run(s, i + 1, {" "})
             d == Run(s, i + 1 + a, {"1"})
             b == Run(s, i + 1 + a + d, {" "})
             f == Skip(s, i + 1 + a + d + b, "F")
         IN IF d = 0 THEN 0 ELSE 1 + a + d + b + f

\* The length of the match of r'\d+\s*층\s*\d*\s*호?' that starts at s[i].
MatchFloor(s, i) ==
    LET d == Run(s, i, {"1"})
        a == Run(s, i + d, {" "})
        f == Skip(s, i + d + a, "F")
        b == Run(s, i + d + a + 1, {" "})
        e == Run(s, i + d + a + 1 + b, {"1"})
        c == Run(s, i + d + a + 1 + b + e, {" "})
        h == Skip(s, i + d + a + 1 + b + e + c, "H")
    IN IF d = 0 \/ f = 0 THEN 0 ELSE d + a + 1 + b + e + c + h

\* The length of the match of r'\d+\s*호' that starts at s[i], or 0.
MatchUnit(s, i) ==
    LET d == Run(s, i, {"1"})
        a == Run(s, i + d, {" "})
    IN IF d = 0 \/ Skip(s, i + d + a, "H") = 0 THEN 0 ELSE d + a + 1

\* re.sub(pattern, repl, s) from position i on: m[i] is the length of the
\* match that starts at s[i]; matches are replaced from left to right.
RECURSIVE ReSub(_, _, _, _)
ReSub(s, m, repl, i) ==
    IF i > Len(s) THEN <<>>
    ELSE IF m[i] > 0 THEN repl \o ReSub(s, m, repl, i + m[i])
    ELSE <<s[i]>> \o ReSub(s, m, repl, i + 1)

\* clean_address_for_search on a string.
CleanString(s) ==
    IF Strip(s) = <<>> THEN s
    ELSE LET s0 == Strip(s)
             s1 == ReSub(s0, [i \in 1..Len(s0) |-> MatchParen(s0, i)], <<>>, 1)
             s2 == ReSub(s1, [i \in 1..Len(s1) |-> MatchBasement(s1, i)], <<>>, 1)
             s3 == ReSub(s2, [i \in 1..Len(s2) |-> MatchFloor(s2, i)], <<>>, 1)
             s4 == ReSub(s3, [i \in 1..Len(s3) |-> MatchUnit(s3, i)], <<>>, 1)
             s5 == ReSub(s4, [i \in 1..Len(s4) |-> Run(s4, i, {" "})], <<" ">>, 1)
         IN Strip(s5)

\* clean_address_for_search: None comes back as it is ('not address'); NaN
\* is true and has no strip method, so line 248 raises AttributeError.
clean_address_for_search(address) ==
    IF address.kind = "str" THEN Str(CleanString(address.s))
    ELSE IF address.kind = "nan" THEN [kind |-> "AttributeError", s |-> <<>>]
    ELSE address

\* bool(value): None and '' are false, NaN and every other string are true.
Truthy(v) == v.kind = "nan" \/ (v.kind = "str" /\ v.s # <<>>)

(***************************************************************************)
(* KakaoAPIClient and its callers, for one record.                         *)
(***************************************************************************)
\* What the provider does with a request.
AddressOutcomes == {"http_error", "timeout", "malformed", "empty", "found"}

RegionOutcomes == {"http_error", "timeout", "malformed", "empty", "no_B", "found"}

\* KakaoAPIClient.get_coordinates_from_address lines 36-37, before the try:
\* 'not address or not address.strip()'.  A value that is true and has no
\* strip method raises AttributeError.
ClientRaises(address) == Truthy(address) /\ address.kind # "str"

ClientSendsRequest(address) ==
    address.kind = "str" /\ Strip(address.s) # <<>>

\* lines 42-62: the pair of the first document, or (None, None) for every
\* failure inside the try.
ClientCoordinates(outcome) == IF outcome = "found" THEN "pair" ELSE "None"

\* get_legal_dong_from_coord lines 89-133: the record of the first document
\* of region type B, or None.
ClientRegion(outcome) == IF outcome = "found" THEN "record" ELSE "None"

\* enrich_with_kakao_api.get_coordinates_from_address lines 40-41 and
\* fix_missing_coordinates lines 152-154: 'pd.isna(address) or not
\* address.strip()'.
IsNa(v) == v.kind \in {"None", "nan"}

\* The first lookup.  process_single_address (lines 37-40) calls the client
\* with the raw address; fix_missing_coordinates (lines 152-163) skips a
\* missing or blank address and calls the client once.
KakaoFirst ==
    /\ kpc = "first"
    /\ IF kcaller = "fix_missing_coordinates" /\ (IsNa(kaddress) \/ ~ClientSendsRequest(kaddress))
       THEN /\ kpc' = "done"
            /\ UNCHANGED <<klookups, kcoord, kraised>>
       ELSE IF ClientRaises(kaddress)
       THEN /\ kpc' = "raised"
            /\ kraised' = TRUE
            /\ UNCHANGED <<klookups, kcoord>>
       ELSE IF ~ClientSendsRequest(kaddress)
       THEN /\ kpc' = "second"
            /\ UNCHANGED <<klookups, kcoord, kraised>>
       ELSE \E outcome \in AddressOutcomes :
                /\ klookups' = Append(klookups, [query |-> kaddress,
                                                 outcome |-> outcome])
                /\ kcoord' = ClientCoordinates(outcome)
                /\ kpc' = IF kcaller = "fix_missing_coordinates"
                          THEN "done" ELSE "second"
                /\ UNCHANGED kraised
    /\ UNCHANGED <<kcaller, kaddress, kregion>>
    /\ UNCHANGED notKakao

\* process_single_address lines 42-48: after a first lookup without a result
\* the cleaned address is looked up when it differs from the address and is
\* not empty.
KakaoSecond ==
    /\ kpc = "second"
    /\ LET cleaned_address == clean_address_for_search(kaddress)
       IN IF kcoord = "None" /\ cleaned_address # kaddress
                             /\ Truthy(cleaned_address)
             /\ ClientSendsRequest(cleaned_address)
          THEN \E outcome \in AddressOutcomes :
                   /\ klookups' = Append(klookups, [query |-> cleaned_address,
                                                    outcome |-> outcome])
                   /\ kcoord' = ClientCoordinates(outcome)
          ELSE UNCHANGED <<klookups, kcoord>>
    /\ kpc' = "region"
    /\ UNCHANGED <<kcaller, kaddress, kregion, kraised>>
    /\ UNCHANGED notKakao

\* process_single_address lines 50-57: with a coordinate pair the region is
\* looked up; the tuple is returned.
KakaoRegion ==
    /\ kpc = "region"
    /\ IF kcoord = "pair"
       THEN \E outcome \in RegionOutcomes :
                kregion' = [outcome |-> outcome, result |-> ClientRegion(outcome)]
       ELSE UNCHANGED kregion
    /\ kpc' = "done"
    /\ UNCHANGED <<kcaller, kaddress, klookups, kcoord, kraised>>
    /\ UNCHANGED notKakao

(***************************************************************************)
(* Enrichment processors on one record.  The record holds its address, its *)
(* coordinate, its region codes, its three region names, whether its       *)
(* induty_code is in the industry table, and its industry columns.  A      *)
(* coordinate, each of the three codes and the industry columns are        *)
(* "missing" or a value; a name is a string or NaN.  code_text is how the   *)
(* codes the record holds are written (1168010100 or 1168010100.0) and     *)
(* decimals whether its coordinate has more than ten decimals.             *)
(***************************************************************************)
\* s.startswith(p)
StartsWith(s, p) == Len(p) <= Len(s) /\ SubSeq(s, 1, Len(p)) = p

\* s[len(p):].strip()
AfterPrefix(s, p) == Strip(SubSeq(s, Len(p) + 1, Len(s)))

\* str(x).strip() if pd.notna(x) else ''
NameText(v) == IF v.kind = "str" THEN Strip(v.s) ELSE <<>>

\* A variant that leaves the province as given and strips from the
\* sub-district only the province with the district, or the district.
StatedDuplicates(ctp_nm, sig_nm, emd_nm) ==
    LET sig == IF StartsWith(sig_nm.s, ctp_nm.s)
               THEN AfterPrefix(sig_nm.s, ctp_nm.s) ELSE sig_nm.s
        both == ctp_nm.s \o <<" ">> \o sig
        emd == IF StartsWith(emd_nm.s, both) THEN AfterPrefix(emd_nm.s, both)
               ELSE IF sig # <<>> /\ StartsWith(emd_nm.s, sig)
               THEN AfterPrefix(emd_nm.s, sig)
               ELSE emd_nm.s
    IN [ctp_nm |-> Str(ctp_nm.s), sig_nm |-> Str(sig), emd_nm |-> Str(emd)]

\* remove_address_duplicates: the three cleaned names.
remove_address_duplicates(ctp_nm, sig_nm, emd_nm) ==
    LET ctp == NameText(ctp_nm)
        sig0 == NameText(sig_nm)
        emd0 == NameText(emd_nm)
        sig == IF ctp # <<>> /\ sig0 # <<>> /\ StartsWith(sig0, ctp)
               THEN AfterPrefix(sig0, ctp) ELSE sig0
        emd1 == IF emd0 # <<>> /\ ctp # <<>> /\ StartsWith(emd0, ctp)
                THEN AfterPrefix(emd0, ctp) ELSE emd0
        full_sig_nm == IF ctp # <<>> THEN Strip(ctp \o <<" ">> \o sig) ELSE sig
        emd == IF emd0 = <<>> THEN emd0
               ELSE IF full_sig_nm # <<>> /\ StartsWith(emd1, full_sig_nm)
               THEN AfterPrefix(emd1, full_sig_nm)
               ELSE IF sig # <<>> /\ StartsWith(emd1, sig)
               THEN AfterPrefix(emd1, sig)
               ELSE emd1
    IN [ctp_nm |-> Str(ctp), sig_nm |-> Str(sig), emd_nm |-> Str(emd)]

\* The names of the record the region lookup returns: the province, the
\* province and the district, and all three levels.
ProviderNames ==
    [ctp_nm |-> Str(<<"a">>), sig_nm |-> Str(<<"a", " ", "b">>),
     emd_nm |-> Str(<<"a", " ", "b", " ", "c">>)]

NoNames == [ctp_nm |-> None, sig_nm |-> None, emd_nm |-> None]

NoCodes == [ctp_cd |-> "missing", sig_cd |-> "missing", emd_cd |-> "missing"]

\* The lengths of the 'code' of a region document: no code, a province code,
\* a district code, a full legal-dong code.
CodeLengths == {0, 2, 5, 10}

\* The answer to a region lookup: whether it holds a document of region type
\* B, and the length of that document's code.
RegionAnswers ==
    {[found |-> FALSE, len |-> 0]} \cup [found : {TRUE}, len : CodeLengths]

\* get_legal_dong_from_coord (kakao_api.py lines 103-131,
\* enrich_with_kakao_api.py lines 77-107): None without a document of type
\* B; otherwise ctp_cd with a code of two characters or more, sig_cd with
\* five or more, emd_cd with exactly ten, and the three names.
get_legal_dong_from_coord(answer) ==
    IF ~answer.found THEN [found |-> FALSE, codes |-> NoCodes, names |-> NoNames]
    ELSE [found |-> TRUE,
          codes |-> [ctp_cd |-> IF answer.len >= 2 THEN "new" ELSE "missing",
                     sig_cd |-> IF answer.len >= 5 THEN "new" ELSE "missing",
                     emd_cd |-> IF answer.len = 10 THEN "new" ELSE "missing"],
          names |-> ProviderNames]

\* What the provider does in one application: the outcomes of the first and
\* the second address lookup, the decimals of a coordinate it returns, and
\* the answer to the region lookup.
ProviderRuns ==
    [first : BOOLEAN, second : BOOLEAN, digits : {"upto10", "over10"},
     region : RegionAnswers]

\* add_coordinates_to_dataframe, for one row.  Line 78 raises AttributeError
\* when the adres column of the frame holds no string: no task is submitted
\* and no row is changed.  Otherwise process_single_address is called for
\* every row, and the row's coordinate, codes and names are set from what it
\* returns; a task that raises (an address that is NaN) leaves them None.
add_coordinates_to_dataframe(rec, p) ==
    LET raises == rec.adres = "nan"
        second == ~p.first /\ rec.adres = "cleanable"
        found == ~raises /\ (p.first \/ (second /\ p.second))
        legal_dong_info == IF found THEN get_legal_dong_from_coord(p.region)
                           ELSE get_legal_dong_from_coord(
                                    [found |-> FALSE, len |-> 0])
    IN IF rec.frame = "no_text" THEN [rec |-> rec, calls |-> 0]
       ELSE [rec |-> [rec EXCEPT !.coord = IF found THEN "new" ELSE "missing",
                                 !.decimals = IF found THEN p.digits ELSE @,
                                 !.codes = legal_dong_info.codes,
                                 !.names = legal_dong_info.names],
             calls |-> IF raises THEN 0
                       ELSE 1 + (IF second THEN 1 ELSE 0)
                              + (IF found THEN 1 ELSE 0)]

\* fix_missing_coordinates, for one row: only a row without lat or lon is
\* looked up, once, by its address.
fix_missing_coordinates(rec, p) ==
    IF rec.coord # "missing" \/ rec.adres = "nan" THEN [rec |-> rec, calls |-> 0]
    ELSE [rec |-> [rec EXCEPT !.coord = IF p.first THEN "new" ELSE "missing",
                              !.decimals = IF p.first THEN p.digits ELSE @],
          calls |-> 1]

\* The row lacks one of ctp_cd, sig_cd, emd_cd.
MissingCode(rec) == \E f \in DOMAIN rec.codes : rec.codes[f] = "missing"

\* enrich_legal_dong_codes, for one row: only a row that lacks a code is
\* looked up, by its coordinate; a returned record replaces the three codes,
\* those it holds as None included, and the three names.
enrich_legal_dong_codes(rec, p) ==
    IF ~MissingCode(rec) \/ rec.coord = "missing"
    THEN [rec |-> rec, calls |-> 0]
    ELSE LET legal_dong == get_legal_dong_from_coord(p.region)
         IN [rec |-> IF legal_dong.found
                     THEN [rec EXCEPT !.codes = legal_dong.codes,
                                      !.names = legal_dong.names]
                     ELSE rec,
             calls |-> 1]

\* apply_address_deduplication, for one row.
apply_address_deduplication(rec) ==
    [rec |-> [rec EXCEPT !.names = remove_address_duplicates(
                                       rec.names.ctp_nm, rec.names.sig_nm,
                                       rec.names.emd_nm)],
     calls |-> 0]

\* add_industry_classification, for one row: the industry columns are set to
\* None and filled from the table when the row's induty_code is in it.
add_industry_classification(rec) ==
    [rec |-> [rec EXCEPT !.industry = IF rec.in_table THEN "table"
                                      ELSE "missing"],
     calls |-> 0]

\* enrich_company_data lines 305-336, for one row of the latest final file:
\* the three processors in turn, then every code as str(int(x)) or '', the
\* coordinate rounded to ten decimals, and the row written back to the file.
enrich_company_data(rec, p) ==
    LET fixed == fix_missing_coordinates(rec, p)
        coded == enrich_legal_dong_codes(fixed.rec, p)
        clean == apply_address_deduplication(coded.rec)
    IN [rec |-> [clean.rec EXCEPT !.code_text = "int", !.decimals = "upto10"],
        calls |-> fixed.calls + coded.calls]

\* The record an application returns joins the history, with the number of
\* remote calls the application made.
EnrichApplied(result) ==
    /\ nhist' = Append(nhist, result.rec)
    /\ ncalls' = Append(ncalls, result.calls)
    /\ UNCHANGED nproc
    /\ UNCHANGED notEnrich

ApplyAddCoordinates ==
    /\ nproc = "add_coordinates_to_dataframe"
    /\ Len(nhist) <= 2
    /\ \E p \in ProviderRuns :
           EnrichApplied(add_coordinates_to_dataframe(nhist[Len(nhist)], p))

ApplyFixMissingCoordinates ==
    /\ nproc = "fix_missing_coordinates"
    /\ Len(nhist) <= 2
    /\ \E p \in ProviderRuns :
           EnrichApplied(fix_missing_coordinates(nhist[Len(nhist)], p))

ApplyEnrichLegalDongCodes ==
    /\ nproc = "enrich_legal_dong_codes"
    /\ Len(nhist) <= 2
    /\ \E p \in ProviderRuns :
           EnrichApplied(enrich_legal_dong_codes(nhist[Len(nhist)], p))

ApplyAddressDeduplication ==
    /\ nproc = "apply_address_deduplication"
    /\ Len(nhist) <= 2
    /\ EnrichApplied(apply_address_deduplication(nhist[Len(nhist)]))

ApplyIndustryClassification ==
    /\ nproc = "add_industry_classification"
    /\ Len(nhist) <= 2
    /\ EnrichApplied(add_industry_classification(nhist[Len(nhist)]))

ApplyEnrichCompanyData ==
    /\ nproc = "enrich_company_data"
    /\ Len(nhist) <= 2
    /\ \E p \in ProviderRuns :
           EnrichApplied(enrich_company_data(nhist[Len(nhist)], p))

(***************************************************************************)
(* The request loops of the collectors.  Every request meets one of the    *)
(* behaviours of the server; the loop goes on, returns or raises.          *)
(***************************************************************************)
\* ProcessConfig.API_RETRY_COUNT
API_RETRY_COUNT == 3

\* MAX_RETRIES of collect_universities
UNIV_MAX_RETRIES == 2

\* 'if page > 100' of both fetch_all_pages
PAGE_CEILING == 100

\* ConnectionError or Timeout, and the HTTPError of raise_for_status.
Transient == {"network", "http"}

\* A body that cannot be parsed, and a parsed body of an unexpected shape.
Malformed == {"unparsable", "shape"}

\* A page without items, a page shorter than the page size or one that
\* reaches the reported total, and a full page below the total.
Pages == {"empty", "last", "full"}

FetchStep(page, retry, last, pc) ==
    /\ fpage' = page
    /\ fretry' = retry
    /\ flast' = last
    /\ ftries' = IF last \in Transient THEN ftries + 1 ELSE 0
    /\ fpc' = pc
    /\ fgot' = (fgot \/ last \in {"full", "last"})
    /\ fgap' = (\/ fgap
                \/ (last = "unparsable" /\ pc = "loop")
                \/ (pc = "returned" /\ last \notin {"empty", "last", "ok"}))
    /\ UNCHANGED <<fcollector, fsnapshot>>
    /\ UNCHANGED notFetch

\* fetch_all_pages of collect_industry_codes (lines 40-113) and of
\* collect_legal_dong_codes (lines 39-152): every failure of the request and
\* every unexpected shape raises; an empty page, a short page and a reached
\* total end the loop, and so does page 101.
FetchAllPages ==
    /\ fcollector \in {"industry", "legal_dong"}
    /\ fpc = "loop"
    /\ \E s \in Transient \cup Malformed \cup Pages :
         IF s \in Transient \cup Malformed
         THEN FetchStep(fpage, fretry, s, "raised")
         ELSE IF s \in {"empty", "last"}
         THEN FetchStep(fpage, fretry, s, "returned")
         ELSE FetchStep(fpage + 1, fretry, s,
                        IF fpage + 1 > PAGE_CEILING THEN "returned" ELSE "loop")

\* 'page += 1' of collect_universities, which has no ceiling: the pages from
\* MaxPage on are counted as MaxPage.
NextPage(page) == IF page < MaxPage THEN page + 1 ELSE MaxPage

\* collect_universities lines 59-164: a RequestException is counted and the
\* page is requested again until the count passes MAX_RETRIES; a status other
\* than 200, a result code other than 00, an empty or short page and any
\* other exception end the loop; a body that is not XML is skipped; a full
\* page resets the count.
CollectUniversities ==
    /\ fcollector = "universities"
    /\ fpc = "loop"
    /\ \E s \in {"network", "http", "unparsable", "shape"} \cup Pages :
         CASE s = "network" ->
                  FetchStep(fpage, fretry + 1, s,
                            IF fretry + 1 > UNIV_MAX_RETRIES
                            THEN "raised" ELSE "loop")
           [] s \in {"http", "shape", "empty", "last"} ->
                  FetchStep(fpage, fretry, s, "returned")
           [] s = "unparsable" ->
                  FetchStep(NextPage(fpage), fretry, s, "loop")
           [] s = "full" ->
                  FetchStep(NextPage(fpage), 0, s, "loop")

\* download_corp_codes lines 44-93: ConnectionError and Timeout are tried
\* again until the last attempt and then raised; every other exception,
\* HTTPError included, is raised at once.
DownloadCorpCodes ==
    /\ fcollector = "download_corp_codes"
    /\ fpc = "loop"
    /\ \E s \in Transient \cup Malformed \cup {"ok"} :
         CASE s = "network" ->
                  IF fretry < API_RETRY_COUNT - 1
                  THEN FetchStep(fpage, fretry + 1, s, "loop")
                  ELSE FetchStep(fpage, fretry, s, "raised")
           [] s \in {"http"} \cup Malformed ->
                  FetchStep(fpage, fretry, s, "raised")
           [] s = "ok" ->
                  FetchStep(fpage, fretry, s, "returned")

\* get_company_info lines 144-173: Timeout and RequestException are tried
\* again until the last attempt, then None is returned; a status other than
\* '000' and every other exception return None.  response.json() raises a
\* RequestException or a plain ValueError, depending on the requests release.
GetCompanyInfo ==
    /\ fcollector = "get_company_info"
    /\ fpc = "loop"
    /\ \E s \in Transient \cup Malformed \cup {"ok"}, json_is_request_error \in BOOLEAN :
         IF s \in Transient \/ (s = "unparsable" /\ json_is_request_error)
         THEN IF fretry < API_RETRY_COUNT - 1
              THEN FetchStep(fpage, fretry + 1, s, "loop")
              ELSE FetchStep(fpage, fretry, s, "returned")
         ELSE FetchStep(fpage, fretry, s, "returned")

\* main() of a paginating collector after the loop returned: an empty list
\* raises and leads to the fallback; any other list is written as the raw
\* snapshot of the day and the older snapshots are deleted.
FetchSave ==
    /\ fcollector \in {"industry", "legal_dong", "universities"}
    /\ fpc = "returned"
    /\ IF fgot
       THEN /\ fsnapshot' = IF fgap THEN "partial" ELSE "complete"
            /\ fpc' = "saved"
       ELSE /\ fpc' = "fallback"
            /\ UNCHANGED fsnapshot
    /\ UNCHANGED <<fcollector, fpage, fretry, flast, ftries, fgot, fgap>>
    /\ UNCHANGED notFetch

(***************************************************************************)
(* The sites that pick the latest snapshot of a dataset.  A file is the    *)
(* stem of its name split at '_' (each token a sequence of code points)    *)
(* and a modification time; a directory is the sequence glob returns.      *)
(***************************************************************************)
\* The names under which the datasets are saved.
DatasetName ==
    [industry    |-> <<50629, 51333, 53076, 46300>>,
     legal_dong  |-> <<48277, 51221, 46041, 53076, 46300>>,
     company     |-> <<44592, 50629, 50948, 52824>>,
     high_school |-> <<44256, 46321, 54617, 44368>>,
     university  |-> <<45824, 54617, 44368>>]

\* The token "raw".
RawToken == <<114, 97, 119>>

\* OutputConfig.RAW_DART_COMPANIES, RAW_HIGH_SCHOOLS and RAW_UNIVERSITIES:
\* the stems of dart_companies_raw.csv, high_schools_raw.csv and
\* universities_raw.csv.
FixedRawStem ==
    [company     |-> <<<<100, 97, 114, 116>>,
                       <<99, 111, 109, 112, 97, 110, 105, 101, 115>>,
                       RawToken>>,
     high_school |-> <<<<104, 105, 103, 104>>, <<115, 99, 104, 111, 111, 108, 115>>,
                       RawToken>>,
     university  |-> <<<<117, 110, 105, 118, 101, 114, 115, 105, 116, 105, 101, 115>>,
                       RawToken>>]

\* f"{name}_raw_{today}.csv"
RawStem(dset, date) == <<DatasetName[dset], RawToken, date>>

\* f"{name}_{today}.csv"
FinalStem(dset, date) == <<DatasetName[dset], date>>

\* The comparison of two Python strings, which is also the comparison of
\* two datetimes written as <<year, month, day>>.
LexLess(a, b) ==
    \E k \in 1..(Len(a) + 1) :
        /\ \A i \in 1..(k - 1) : i <= Len(b) /\ a[i] = b[i]
        /\ k <= Len(b)
        /\ k <= Len(a) => a[k] < b[k]

IsPrefix(p, t) == Len(p) <= Len(t) /\ \A i \in 1..Len(p) : t[i] = p[i]

\* glob("{name}_raw_*.csv")
RawPattern(dset, stem) ==
    Len(stem) >= 3 /\ stem[1] = DatasetName[dset] /\ stem[2] = RawToken

\* glob("{name}_*.csv")
FinalPattern(dset, stem) == Len(stem) >= 2 /\ stem[1] = DatasetName[dset]

\* glob("{name}*.csv")
IndexPattern(dset, stem) == IsPrefix(DatasetName[dset], stem[1])

\* The positions of the listing that a pattern matches, in glob order.
Glob(dir, Matches(_)) ==
    SelectSeq([i \in 1..Len(dir) |-> i], LAMBDA i : Matches(dir[i].stem))

\* A variant that takes the first token of the stem.
SplitFirst(stem) == stem[1]

\* x.stem.split('_')[-1]
SplitLast(stem) == stem[Len(stem)]

\* x.stem.split('_')[1] if '_' in x.stem else ''
SplitSecond(stem) == IF Len(stem) >= 2 THEN stem[2] ELSE <<>>

DaysIn(year, month) ==
    IF month \in {4, 6, 9, 11} THEN 30
    ELSE IF month # 2 THEN 31
    ELSE IF year % 4 = 0 /\ (year % 100 # 0 \/ year % 400 = 0) THEN 29
    ELSE 28

\* The code point at position i of a token, 0 past its end.
CharAt(t, i) == IF i <= Len(t) THEN t[i] ELSE 0

\* The code points of the digit zero of every script: \d of a str pattern
\* matches the decimal digits of all scripts (Unicode 14.0), and each script
\* has its ten digits in a row.
DecimalZeros ==
    {48, 1632, 1776, 1984, 2406, 2534, 2662, 2790,
     2918, 3046, 3174, 3302, 3430, 3558, 3664, 3792,
     3872, 4160, 4240, 6112, 6160, 6470, 6608, 6784,
     6800, 6992, 7088, 7232, 7248, 42528, 43216, 43264,
     43472, 43504, 43600, 44016, 65296, 66720, 68912, 69734,
     69872, 69942, 70096, 70384, 70736, 70864, 71248, 71360,
     71472, 71904, 72016, 72784, 73040, 73120, 92768, 92864,
     93008, 120782, 120792, 120802, 120812, 120822, 123200, 123632,
     125264, 130032}

\* The value int() gives a character that \d matches, and -1 for a character
\* that \d does not match.
DigitValue(c) ==
    IF \E z \in DecimalZeros : c \in z..(z + 9)
    THEN c - (CHOOSE z \in DecimalZeros : c \in z..(z + 9))
    ELSE -1

\* The ways %m matches at position 5, in the order the pattern tries them:
\* 1[0-2], 0[1-9], [1-9].
MonthMatches(t) ==
    LET a == CharAt(t, 5)
        b == CharAt(t, 6)
    IN  (IF a = 49 /\ b \in 48..50
         THEN <<[len |-> 2, val |-> 10 + (b - 48)]>> ELSE <<>>)
        \o (IF a = 48 /\ b \in 49..57
            THEN <<[len |-> 2, val |-> b - 48]>> ELSE <<>>)
        \o (IF a \in 49..57 THEN <<[len |-> 1, val |-> a - 48]>> ELSE <<>>)

\* The ways %d matches at position p, in the order the pattern tries them:
\* 3[01], [12]\d, 0[1-9], [1-9], a blank and [1-9].
DayMatches(t, p) ==
    LET a == CharAt(t, p)
        b == CharAt(t, p + 1)
    IN  (IF a = 51 /\ b \in 48..49
         THEN <<[len |-> 2, val |-> 30 + (b - 48)]>> ELSE <<>>)
        \o (IF a \in 49..50 /\ DigitValue(b) >= 0
            THEN <<[len |-> 2, val |-> 10 * (a - 48) + DigitValue(b)]>>
            ELSE <<>>)
        \o (IF a = 48 /\ b \in 49..57
            THEN <<[len |-> 2, val |-> b - 48]>> ELSE <<>>)
        \o (IF a \in 49..57 THEN <<[len |-> 1, val |-> a - 48]>> ELSE <<>>)
        \o (IF a = 32 /\ b \in 49..57
            THEN <<[len |-> 2, val |-> b - 48]>> ELSE <<>>)

\* extract_date: datetime.strptime(date_str, '%Y%m%d') of the last token,
\* and datetime.min when it raises.  The pattern is matched at the start of
\* the token: four digits of any script, then the first month for which a
\* day follows, and the first such day; text left over, the year 0 and a day
\* the month does not have raise.
extract_date(stem) ==
    LET t == SplitLast(stem)
        n(i) == DigitValue(t[i])
        year == 1000 * n(1) + 100 * n(2) + 10 * n(3) + n(4)
        months == SelectSeq(MonthMatches(t),
                            LAMBDA m : DayMatches(t, 5 + m.len) # <<>>)
        month == months[1]
        day == DayMatches(t, 5 + month.len)[1]
    IN  IF /\ Len(t) >= 4
           /\ \A i \in 1..4 : DigitValue(t[i]) >= 0
           /\ months # <<>>
           /\ 4 + month.len + day.len = Len(t)
           /\ year >= 1
           /\ day.val <= DaysIn(year, month.val)
        THEN <<year, month.val, day.val>>
        ELSE <<1, 1, 1>>

\* files.sort(key=..., reverse=True); files[0], and max(files, key=...):
\* the first file in glob order among those whose key is greatest.  Zero
\* stands for an empty list.
FirstGreatest(dir, at, Key(_)) ==
    IF at = <<>> THEN 0
    ELSE LET k(n) == Key(dir[at[n]].stem)
         IN  at[CHOOSE n \in 1..Len(at) :
                    /\ \A m \in 1..Len(at) : ~LexLess(k(n), k(m))
                    /\ \A m \in 1..(n - 1) : LexLess(k(m), k(n))]

Sites == {"fallback", "processor", "reference", "manager", "indexing"}

SitePicks(site, at) ==
    /\ ~lpicks[site].ran
    /\ lpicks' = [lpicks EXCEPT ![site] = [ran |-> TRUE, at |-> at]]
    /\ UNCHANGED <<ldataset, lkind, ldir>>

\* The except branch of a collector's main(): the latest raw snapshot.
SnapCollectorFallback ==
    /\ lkind = "raw"
    /\ ldataset \in {"industry", "legal_dong", "company", "university"}
    /\ SitePicks("fallback",
           FirstGreatest(ldir,
               Glob(ldir, LAMBDA s : RawPattern(ldataset, s)), SplitLast))
    /\ UNCHANGED notLatest

\* The input of add_coordinates.main and of process_school_data: the latest
\* dated raw file; without one, the file of the fixed name when it exists.
SnapProcessorInput ==
    /\ lkind = "raw"
    /\ ldataset \in {"company", "high_school", "university"}
    /\ LET raw_files == Glob(ldir, LAMBDA s : RawPattern(ldataset, s))
           fallback == {i \in 1..Len(ldir) :
                           ldir[i].stem = FixedRawStem[ldataset]}
       IN SitePicks("processor",
              IF raw_files # <<>> THEN FirstGreatest(ldir, raw_files, SplitLast)
              ELSE IF fallback # {} THEN CHOOSE i \in fallback : TRUE
              ELSE 0)
    /\ UNCHANGED notLatest

\* load_industry_classification and load_legal_dong_codes.
SnapLoadReference ==
    /\ lkind = "final"
    /\ ldataset \in {"industry", "legal_dong"}
    /\ SitePicks("reference",
           FirstGreatest(ldir,
               Glob(ldir, LAMBDA s : FinalPattern(ldataset, s)), SplitSecond))
    /\ UNCHANGED notLatest

\* ReferenceDataManager.get_latest_csv_file
SnapGetLatestCsvFile ==
    /\ lkind = "final"
    /\ ldataset \in {"company", "high_school", "university"}
    /\ SitePicks("manager",
           FirstGreatest(ldir,
               Glob(ldir, LAMBDA s : FinalPattern(ldataset, s)), extract_date))
    /\ UNCHANGED notLatest

\* JobSegPipeline.run_indexing
SnapRunIndexing ==
    /\ lkind = "final"
    /\ ldataset \in {"company", "high_school", "university"}
    /\ SitePicks("indexing",
           FirstGreatest(ldir,
               Glob(ldir, LAMBDA s : IndexPattern(ldataset, s)), SplitLast))
    /\ UNCHANGED notLatest

(***************************************************************************)
(* The indexer: run_indexing recreates the index and loads the three       *)
(* final CSV files with index_data, chunk by chunk.                        *)
(***************************************************************************)
\* The properties of create_index_mapping.
SchemaFields ==
    {"place_type", "location", "lat", "lon", "ctp_cd", "ctp_nm", "sig_cd",
     "sig_nm", "emd_cd", "emd_nm", "all_addr_nm", "fac_cd", "fac_nm",
     "corp_cd", "corp_nm", "corp_depth1_cd", "corp_depth1", "corp_depth2_cd",
     "corp_depth2", "corp_depth3_cd", "corp_depth3", "corp_depth4_cd",
     "corp_depth4", "corp_depth5_cd", "corp_depth5"}

\* The columns of the final CSV files.
SchoolColumns ==
    {"fac_cd", "fac_nm", "ctp_cd", "ctp_nm", "sig_cd", "sig_nm", "emd_cd",
     "emd_nm", "all_addr_nm", "lat", "lon"}

CompanyColumns ==
    {"corp_cd", "corp_nm", "ctp_cd", "ctp_nm", "sig_cd", "sig_nm", "emd_cd",
     "emd_nm", "all_addr_nm", "lon", "lat", "corp_depth1_cd", "corp_depth1",
     "corp_depth2_cd", "corp_depth2", "corp_depth3_cd", "corp_depth3",
     "corp_depth4_cd", "corp_depth4", "corp_depth5_cd", "corp_depth5"}

CsvColumns(place_type) ==
    IF place_type = "company" THEN CompanyColumns ELSE SchoolColumns

\* The order in which run_indexing loads the datasets.
IndexOrder == <<"high_school", "university", "company">>

\* The cells of a row that are NaN.
NaCells(row) ==
    (IF row.lat = "nan" THEN {"lat"} ELSE {}) \cup
    (IF row.lon = "nan" THEN {"lon"} ELSE {}) \cup
    (IF row.emd_nm = "nan" THEN {"emd_nm"} ELSE {})

\* The document generate_docs builds of the row at label idx (from zero).
IndexDoc(place_type, idx, row) ==
    [id |-> <<place_type, idx>>,
     fields |-> {"place_type", "location", "latitude", "longitude"} \cup
                {c \in CsvColumns(place_type) \ NaCells(row) :
                    c \notin {"lat", "lon", "latitude", "longitude"}},
     old |-> FALSE]

\* generate_docs: the rows with both coordinates, in the order of the frame.
generate_docs(place_type, rows) ==
    LET kept == SelectSeq([i \in 1..Len(rows) |-> i],
                    LAMBDA i : rows[i].lat # "nan" /\ rows[i].lon # "nan")
    IN  [n \in 1..Len(kept) |-> IndexDoc(place_type, kept[n] - 1, rows[kept[n]])]

\* Indexing a document under an id replaces the document of that id.
IndexPut(index, docs) ==
    {d \in index : \A e \in docs : e.id # d.id} \cup docs

IndexMoveOn ==
    /\ xat' = xat + 1
    /\ xpc' = IF xat = Len(IndexOrder) THEN "done" ELSE "open"
    /\ xpending' = <<>>
    /\ xok' = 0
    /\ xrejected' = 0

\* create_index: delete the index if it exists, create it anew.  A failing
\* request leaves run_indexing with the exception.
IndexCreate ==
    /\ xpc = "start"
    /\ \/ /\ xindex' = {}
          /\ xpc' = "open"
       \/ /\ xindex' \in {xindex, {}}
          /\ xpc' = "raised"
    /\ UNCHANGED <<xfiles, xchunk, xat, xpending, xok, xrejected, xaccepted,
                   xreport>>
    /\ UNCHANGED notIndex

\* run_indexing looks for the file of the next dataset; index_data reads it.
IndexOpen ==
    /\ xpc = "open"
    /\ LET t == IndexOrder[xat]
       IN  IF ~xfiles[t].exists
           THEN /\ xreport' = [xreport EXCEPT ![t] =
                       [status |-> "no_file", success |-> 0, failed |-> 0]]
                /\ IndexMoveOn
           ELSE /\ xpending' = generate_docs(t, xfiles[t].rows)
                /\ xpc' = "bulk"
                /\ UNCHANGED <<xat, xok, xrejected, xreport>>
    /\ UNCHANGED <<xfiles, xchunk, xindex, xaccepted>>
    /\ UNCHANGED notIndex

\* A variant without the handler: the exception of helpers.bulk leaves
\* index_data and run_indexing.
IndexBulkPropagates ==
    /\ xpc' = "raised"
    /\ UNCHANGED <<xat, xpending, xok, xrejected, xreport>>

\* index_data lines 161-163: the exception of helpers.bulk is caught, its
\* message is printed without any count, and index_data returns False;
\* run_indexing ignores the value and goes on with the next dataset.
IndexBulkFailed ==
    /\ xreport' = [xreport EXCEPT ![IndexOrder[xat]] =
           [status |-> "bulk_failed", success |-> 0, failed |-> 0]]
    /\ IndexMoveOn

\* helpers.bulk sends the next chunk: the server accepts or rejects each
\* document of it, or the request fails and the load of the file ends.
IndexBulkChunk ==
    /\ xpc = "bulk"
    /\ xpending # <<>>
    /\ LET t == IndexOrder[xat]
           n == IF Len(xpending) < xchunk THEN Len(xpending) ELSE xchunk
           chunk == SubSeq(xpending, 1, n)
       IN  \/ \E rejected \in SUBSET (1..n) :
                 LET taken == {chunk[i] : i \in (1..n) \ rejected}
                 IN  /\ xindex' = IndexPut(xindex, taken)
                     /\ xaccepted' = xaccepted \cup {d.id : d \in taken}
                     /\ xok' = xok + Cardinality(taken)
                     /\ xrejected' = xrejected + Cardinality(rejected)
                     /\ xpending' = SubSeq(xpending, n + 1, Len(xpending))
                     /\ UNCHANGED <<xpc, xat, xreport>>
           \/ /\ IndexBulkFailed
              /\ UNCHANGED <<xindex, xaccepted>>
    /\ UNCHANGED <<xfiles, xchunk>>
    /\ UNCHANGED notIndex

\* helpers.bulk returns the counts; index_data prints them and returns True.
IndexReturn ==
    /\ xpc = "bulk"
    /\ xpending = <<>>
    /\ xreport' = [xreport EXCEPT ![IndexOrder[xat]] =
           [status |-> "indexed", success |-> xok, failed |-> xrejected]]
    /\ IndexMoveOn
    /\ UNCHANGED <<xfiles, xchunk, xindex, xaccepted>>
    /\ UNCHANGED notIndex

(***************************************************************************)
(* Address cleaning applied to an address and then to its own result.      *)
(***************************************************************************)
CleanOnce ==
    /\ qpc = "given"
    /\ qonce' = clean_address_for_search(qaddress)
    /\ qpc' = "once"
    /\ UNCHANGED <<qaddress, qtwice>>
    /\ UNCHANGED notClean

CleanAgain ==
    /\ qpc = "once"
    /\ qtwice' = clean_address_for_search(qonce)
    /\ qpc' = "twice"
    /\ UNCHANGED <<qaddress, qonce>>
    /\ UNCHANGED notClean

(***************************************************************************)
(* The industry hierarchy: build_hierarchy turns the raw code table into   *)
(* chains, add_industry_classification looks a company's code up in them.  *)
(* A code is its sequence of digits; 10 stands for the decimal point.      *)
(***************************************************************************)
\* depth1_map of build_hierarchy: the section letters A to U, each with its
\* name in the map.
depth1_map ==
    [l \in {"A", "B", "C", "D", "E", "F", "G", "H", "I", "J", "K", "L", "M",
            "N", "O", "P", "Q", "R", "S", "T", "U"} |-> <<"section", l>>]

\* str(int(...)) of a column of digits that read_csv parsed as numbers: the
\* leading zeros are gone.
IntText(code) ==
    LET nz == {i \in 1..Len(code) : code[i] # 0}
    IN  IF nz = {} THEN <<0>>
        ELSE SubSeq(code, CHOOSE i \in nz : \A j \in nz : i <= j, Len(code))

\* str(...) of a cell of a column that read_csv parsed as floats.
FloatText(code) == IntText(code) \o <<10, 0>>

Prefix(code, k) == SubSeq(code, 1, k)

\* The raw table as build_hierarchy sees it after read_csv and astype(str);
\* the name of a row is kept as the code the row was published under.
RawRead(table) ==
    [i \in 1..Len(table) |->
        [code |-> IntText(table[i].code), name |-> table[i].code,
         letter |-> table[i].letter]]

\* code in depth_dicts[k], and depth_dicts[k][code]: the last row wins.
InDepth(R, k, code) == Len(code) = k /\ \E i \in 1..Len(R) : R[i].code = code

DepthName(R, code) ==
    R[CHOOSE i \in 1..Len(R) :
        /\ R[i].code = code
        /\ \A j \in 1..Len(R) : R[j].code = code => j <= i].name

\* The ten columns build_hierarchy gives a row: depths 2 to 4 from the
\* first characters of a code that is long enough, depth 5 only from a code
\* of exactly five characters.
HierarchyRow(R, i) ==
    LET code == R[i].code
        has(k) == /\ IF k = 5 THEN Len(code) = 5 ELSE Len(code) >= k
                  /\ InDepth(R, k, Prefix(code, k))
    IN  [d1 |-> IF R[i].letter \in DOMAIN depth1_map THEN R[i].letter ELSE "",
         n1 |-> IF R[i].letter \in DOMAIN depth1_map
                THEN depth1_map[R[i].letter] ELSE <<>>,
         cd |-> [k \in 2..5 |-> IF has(k) THEN Prefix(code, k) ELSE <<>>],
         nm |-> [k \in 2..5 |->
                    IF has(k) THEN DepthName(R, Prefix(code, k)) ELSE <<>>]]

\* build_hierarchy: the rows, duplicates dropped.
build_hierarchy(table) ==
    LET R == RawRead(table)
        rows == [i \in 1..Len(R) |-> HierarchyRow(R, i)]
        first == SelectSeq([i \in 1..Len(R) |-> i],
                     LAMBDA i : \A j \in 1..(i - 1) : rows[j] # rows[i])
    IN  [n \in 1..Len(first) |-> rows[first[n]]]

\* str(int(float(code_val))) of a cell of the final CSV, '' for NaN.
LookupKey(cell) == IF cell = <<>> THEN <<>> ELSE IntText(cell)

\* The rows of the final CSV that enter industry_lookup under a key.
LookupRows(hier, key) ==
    {j \in 1..Len(hier) : \E k \in 2..5 : LookupKey(hier[j].cd[k]) = key}

NoIndustry ==
    [matched |-> FALSE, d1 |-> "", n1 |-> <<>>,
     cd |-> [k \in 2..5 |-> <<>>], nm |-> [k \in 2..5 |-> <<>>]]

\* industry_lookup[key]: every row writes its whole chain under each of its
\* codes, so the last row that holds the key wins.
industry_lookup(hier, key) ==
    LET j == CHOOSE j \in LookupRows(hier, key) :
                 \A i \in LookupRows(hier, key) : i <= j
    IN  [matched |-> TRUE, d1 |-> hier[j].d1, n1 |-> hier[j].n1,
         cd |-> [k \in 2..5 |-> LookupKey(hier[j].cd[k])],
         nm |-> hier[j].nm]

\* str(induty_code).strip() for the dtype read_csv gave the column.
IndutyText(rec) ==
    CASE rec.column = "int" -> IntText(rec.code)
      [] rec.column = "float" -> FloatText(rec.code)
      [] OTHER -> rec.code

\* add_industry_classification, for one company row.
ClassifyRecord(hier, rec) ==
    LET key == IndutyText(rec)
    IN  IF key # <<>> /\ LookupRows(hier, key) # {}
        THEN industry_lookup(hier, key) ELSE NoIndustry

\* process_and_save_final of the industry collector.
IndustryBuild ==
    /\ tpc = "raw"
    /\ thier' = build_hierarchy(traw)
    /\ tpc' = "final"
    /\ UNCHANGED <<traw, trec, tout>>
    /\ UNCHANGED notIndustry

\* add_industry_classification on the company row.
IndustryClassify ==
    /\ tpc = "final"
    /\ tout' = ClassifyRecord(thier, trec)
    /\ tpc' = "classified"
    /\ UNCHANGED <<traw, trec, thier>>
    /\ UNCHANGED notIndustry

(***************************************************************************)
(* run_company_pipeline: the DART collector, add_coordinates.main and      *)
(* add_industry_classification.main, each inside its own try.              *)
(***************************************************************************)
\* Step 0, collect_dart_data.main: a new raw snapshot, or the raw directory
\* as it was.
CompanyCollect ==
    /\ ypc = "collect"
    /\ \E gathered \in BOOLEAN : yraw' = IF gathered THEN "new" ELSE yraw
    /\ ypc' = "geocode"
    /\ UNCHANGED <<ytoday, yinter, yref, yfinal, ybefore, ygeo>>
    /\ UNCHANGED notCompany

\* Step 1, add_coordinates.main: it raises without a raw file and when the
\* geocoding fails, leaving the intermediate file as it was; otherwise it
\* writes the intermediate file, and after that it either returns or raises
\* while printing the sample columns (a raw file without one of them).
CompanyGeocode ==
    /\ ypc = "geocode"
    /\ \E works \in BOOLEAN, printed \in BOOLEAN :
          IF yraw # "none" /\ works
          THEN /\ yinter' = "fresh"
               /\ ygeo' = IF printed THEN "done" ELSE "failed"
          ELSE UNCHANGED yinter /\ ygeo' = "failed"
    /\ ypc' = "industry"
    /\ UNCHANGED <<ytoday, yraw, yref, yfinal, ybefore>>
    /\ UNCHANGED notCompany

\* Step 2, add_industry_classification.main: it raises without an industry
\* table and without the intermediate file; otherwise it saves the final
\* snapshot of the day, made of the intermediate file it found, and
\* save_to_csv deletes the older snapshots.
CompanyIndustry ==
    /\ ypc = "industry"
    /\ \E works \in BOOLEAN :
          IF yref /\ yinter # "none" /\ works
          THEN yfinal' = [exists |-> TRUE, date |-> ytoday, made |-> yinter]
          ELSE UNCHANGED yfinal
    /\ ypc' = "done"
    /\ UNCHANGED <<ytoday, yraw, yinter, yref, ybefore, ygeo>>
    /\ UNCHANGED notCompany

(***************************************************************************)
(* Initial states and specifications.  Each specification runs one part of *)
(* the program; the other parts stay in their initial state.               *)
(***************************************************************************)
CollectIdle ==
    /\ ds = "industry"
    /\ today = 1
    /\ raw = EmptyDir
    /\ final = EmptyDir
    /\ cpc = "idle"
    /\ fetched = NoFile
    /\ path = 0
    /\ run = NewRun
    /\ everStuck = FALSE

PipelineIdle ==
    /\ pmode = "full"
    /\ ppc = PipelineStart("full")
    /\ attempted = {}
    /\ failedSteps = {}

MatchLocals ==
    /\ mpc = "start"
    /\ mpos = 0
    /\ futures = {}
    /\ completed = {}
    /\ results = <<>>
    /\ nloc = 0
    /\ all_results = <<>>
    /\ processed_count = 0
    /\ matched_count = 0
    /\ first_write = TRUE
    /\ mret = "none"
    /\ collected = <<>>
    /\ abandoned = FALSE
    /\ saves = <<>>

MatchIdle ==
    /\ job = [place_type |-> "company", chunk_size |-> 1, batch_size |-> 1,
              interval |-> 1]
    /\ input_csv = NoInput
    /\ output_csv = NoOutput
    /\ MatchLocals

MsearchLocals ==
    /\ attempt = 0
    /\ requests = <<>>
    /\ sresponse = NoResponse
    /\ spc = "loop"
    /\ sout = [raised |-> FALSE, results |-> <<>>]

MsearchIdle ==
    /\ sbatch = <<>>
    /\ splace = "company"
    /\ MsearchLocals

\* The batches of at most MaxBatch locations.
SearchBatches ==
    UNION {{[i \in 1..n |-> [id |-> i, adid |-> ParseCell(t[i], "object"),
                             ans |-> a[i]]] :
               a \in [1..n -> Answers], t \in [1..n -> {"ab", ""}]} :
           n \in 1..MaxBatch}

PoolLocals ==
    /\ queued = <<>>
    /\ running = {}
    /\ finished = {}
    /\ yielded = <<>>
    /\ wresults = <<>>
    /\ wpc = "start"

PoolIdle ==
    /\ wlocs = <<>>
    /\ wcfg = [place_type |-> "company", batch_size |-> 1, concurrency |-> 1,
               lost |-> {}]
    /\ PoolLocals

\* The (lat, lon, adid) lists of at most MaxLocs locations.
LocationLists ==
    UNION {{[i \in 1..n |-> [id |-> i, adid |-> ParseCell("ab", "object"),
                             ans |-> a[i]]] : a \in [1..n -> Answers]} :
           n \in 0..MaxLocs}

\* self.concurrency, scaled to the number of batches.
Concurrencies == {1, 2}

GeoLocals ==
    /\ gpos = 0
    /\ gpending = {}
    /\ gflight = {}
    /\ gdone = {}
    /\ gsent = <<>>
    /\ gfailed = FALSE
    /\ gresults = <<>>
    /\ gout = NoOutput
    /\ gpc = "chunk"

GeoIdle ==
    /\ gin = [time_col |-> FALSE, rows |-> <<>>]
    /\ gcfg = [place_type |-> "company", chunk_size |-> 1, batch_size |-> 1]
    /\ gindex = {}
    /\ GeoLocals

\* The positions of the devices and of the places.
DevicePositions == {0, 1}

PlacePositions == {3, 4}

\* The rows of an input file with their position; a row without a coordinate
\* is written with position 0 and the time type DAY.
GeoRows ==
    {r \in [adid : {"ab"}, coord : BOOLEAN, time : TimeTypes,
            ans : {"index"}, pos : DevicePositions] :
        ~r.coord => r.pos = 0 /\ r.time = "DAY"}

\* The input files of at most MaxGeoRows rows: without a time_type column,
\* every row written with time DAY, and with the column and a NIGHT row.
GeoInputs ==
    {f \in UNION {[time_col : {tc},
                   rows : UNION {[1..n -> IF tc THEN GeoRows
                                           ELSE {r \in GeoRows : r.time = "DAY"}] :
                                 n \in 0..MaxGeoRows}] : tc \in BOOLEAN} :
        f.time_col => \E i \in 1..Len(f.rows) : f.rows[i].time = "NIGHT"}

\* The indexes: some of the companies, with or without the schools.
GeoIndexes ==
    {c \cup t : c \in SUBSET [place_type : {"company"}, pos : PlacePositions],
                t \in {{}, [place_type : {"university", "high_school"},
                            pos : {3}]}}

RowsLocals ==
    /\ ework = <<>>
    /\ etasks = {}
    /\ eresults = {}
    /\ ecursor = 0
    /\ eout = <<>>
    /\ epc = "start"

RowsIdle ==
    /\ eproc = "add_industry_classification"
    /\ edf = <<>>
    /\ RowsLocals

\* The input frames of at most MaxFrame rows, as read_csv or pd.DataFrame
\* gives them; `grad` marks a school whose fac_nm contains '대학원', `text`
\* a row whose adres is a string and not NaN.
RowFrames(graduate, texts) ==
    UNION {{[i \in 1..n |-> [key |-> i, grad |-> g[i], text |-> t[i]]] :
               g \in [1..n -> graduate], t \in [1..n -> texts]} :
           n \in 0..MaxFrame}

NoRegion == [outcome |-> "none", result |-> "None"]

KakaoLocals ==
    /\ klookups = <<>>
    /\ kcoord = "None"
    /\ kregion = NoRegion
    /\ kraised = FALSE
    /\ kpc = "first"

KakaoIdle ==
    /\ kcaller = "process_single_address"
    /\ kaddress = None
    /\ KakaoLocals

\* The address values: None, NaN and the strings of at most MaxAddr
\* characters.
Addresses ==
    {None, NaNValue} \cup
    UNION {{Str(s) : s \in [1..n -> Chars]} : n \in 0..MaxAddr}

\* The names of at most MaxName characters, and NaN.
NameChars == {"a", "b", " "}

Names ==
    {NaNValue} \cup UNION {{Str(s) : s \in [1..n -> NameChars]} : n \in 0..MaxName}

\* Triples in which a name repeats the levels above it: the names of a
\* looked-up record, and a sub-district that repeats the province only.
DuplicatedNames ==
    {ProviderNames,
     [ctp_nm |-> Str(<<"a">>), sig_nm |-> Str(<<"b">>),
      emd_nm |-> Str(<<"a", " ", "b">>)]}

\* The records.  The address de-duplication is given every triple of names,
\* the other processors the names of a looked-up record or none.  `frame`
\* tells whether the adres column of the record's frame holds a string.
EnrichRecords(names) ==
    [adres : {"plain", "cleanable", "nan"},
     frame : {"text", "no_text"},
     coord : {"missing", "old"},
     decimals : {"upto10", "over10"},
     codes : [ctp_cd : {"missing", "old"}, sig_cd : {"missing", "old"},
              emd_cd : {"missing", "old"}],
     code_text : {"int", "float"},
     names : names,
     in_table : BOOLEAN,
     industry : {"missing", "old", "table"}]

EnrichIdle ==
    /\ nproc = "add_coordinates_to_dataframe"
    /\ nhist = <<>>
    /\ ncalls = <<>>

FetchLocals ==
    /\ fpage = 1
    /\ fretry = 0
    /\ flast = "none"
    /\ ftries = 0
    /\ fpc = "loop"
    /\ fgot = FALSE
    /\ fgap = FALSE
    /\ fsnapshot = "previous"

FetchIdle ==
    /\ fcollector = "industry"
    /\ FetchLocals

SnapNoPicks == [s \in Sites |-> [ran |-> FALSE, at |-> 0]]

SnapIdle ==
    /\ ldataset = "industry"
    /\ lkind = "raw"
    /\ ldir = <<>>
    /\ lpicks = SnapNoPicks

\* The dates of the runs that left a snapshot, as strftime('%Y%m%d') writes
\* them: 20251209, 20250930, 20260101, 20251208, and 20260102.
SnapDateList ==
    << <<50, 48, 50, 53, 49, 50, 48, 57>>, <<50, 48, 50, 53, 48, 57, 51, 48>>,
       <<50, 48, 50, 54, 48, 49, 48, 49>>, <<50, 48, 50, 53, 49, 50, 48, 56>>,
       <<50, 48, 50, 54, 48, 49, 48, 50>> >>

SnapDates == {SnapDateList[i] : i \in 1..MaxSnap}

\* A dataset whose files lie in the same directories.
Neighbour ==
    [industry |-> "legal_dong", legal_dong |-> "industry",
     company |-> "high_school", high_school |-> "university",
     university |-> "high_school"]

\* The snapshots of the dataset in a directory of the kind.
OwnStems(dset, kind) ==
    IF kind = "raw" THEN {RawStem(dset, d) : d \in SnapDates}
    ELSE {FinalStem(dset, d) : d \in SnapDates}

\* The names a directory may hold: the snapshots of the dataset, a later
\* snapshot of a neighbour and, in the raw directory, the dataset's file of
\* the fixed name.
SnapStems(dset, kind) ==
    OwnStems(dset, kind) \cup
    {IF kind = "raw" THEN RawStem(Neighbour[dset], SnapDateList[MaxSnap + 1])
     ELSE FinalStem(Neighbour[dset], SnapDateList[MaxSnap + 1])} \cup
    (IF kind = "raw" /\ dset \in DOMAIN FixedRawStem
     THEN {FixedRawStem[dset]} ELSE {})

\* The listings of at most MaxSnap files with distinct names.
Listings(dset, kind) ==
    {d \in UNION {[1..n -> [stem : SnapStems(dset, kind), mtime : 1..MaxMtime]] :
                    n \in 0..MaxSnap} :
        \A i, j \in 1..Len(d) : d[i].stem = d[j].stem => i = j}

NoCsv == [exists |-> FALSE, rows |-> <<>>]

NoReport == [status |-> "none", success |-> 0, failed |-> 0]

IndexLocals ==
    /\ xpc = "start"
    /\ xat = 1
    /\ xpending = <<>>
    /\ xok = 0
    /\ xrejected = 0
    /\ xaccepted = {}
    /\ xreport = [t \in PlaceTypes |-> NoReport]

IndexIdle ==
    /\ xfiles = [t \in PlaceTypes |-> NoCsv]
    /\ xchunk = 1
    /\ xindex = {}
    /\ IndexLocals

\* The rows of a final CSV: both coordinates, one of them missing, and a
\* row without the name of its sub-district.
IndexRowKinds ==
    {[lat |-> "num", lon |-> "num", emd_nm |-> "text"],
     [lat |-> "nan", lon |-> "num", emd_nm |-> "text"],
     [lat |-> "num", lon |-> "nan", emd_nm |-> "text"],
     [lat |-> "num", lon |-> "num", emd_nm |-> "nan"]}

IndexCsvs ==
    {NoCsv} \cup
    {[exists |-> TRUE, rows |-> r] :
        r \in UNION {[1..n -> IndexRowKinds] : n \in 0..MaxIndexRows}}

\* The final directories whose files hold at most MaxIndexRows rows in all.
IndexDirs ==
    {f \in [PlaceTypes -> IndexCsvs] :
        Len(f["high_school"].rows) + Len(f["university"].rows)
            + Len(f["company"].rows) <= MaxIndexRows}

\* What an earlier run left in the index.
OldIndexes ==
    {{}, {[id |-> <<"company", 0>>, fields |-> {"place_type", "corp_nm"},
           old |-> TRUE],
          [id |-> <<"company", 7>>, fields |-> {"place_type", "corp_nm"},
           old |-> TRUE]}}

CleanLocals ==
    /\ qonce = None
    /\ qtwice = None
    /\ qpc = "given"

CleanIdle ==
    /\ qaddress = None
    /\ CleanLocals

\* The addresses of at most MaxClean characters written with a blank, a
\* digit, the floor, unit and basement words.
CleanAddresses ==
    UNION {{Str(s) : s \in [1..n -> {" ", "1", "F", "H", "B"}]} :
              n \in 0..MaxClean}

IndustryLocals ==
    /\ thier = <<>>
    /\ tout = NoIndustry
    /\ tpc = "raw"

IndustryIdle ==
    /\ traw = <<>>
    /\ trec = [code |-> <<>>, column |-> "text"]
    /\ IndustryLocals

\* Codes of two sections of the classification.
IndustryCodes ==
    {<<4, 2>>, <<4, 2, 2>>, <<4, 2, 2, 0>>, <<4, 2, 2, 0, 9>>,
     <<4, 2, 2, 0, 1>>, <<0, 1>>, <<0, 1, 1>>}

SectionOf(code) == IF code[1] = 0 THEN "A" ELSE "C"

\* The raw tables of at most MaxCodes rows: no code twice, and every code
\* of three digits or more follows its parent.
RawTables ==
    {r \in UNION {[1..n -> [code : IndustryCodes, letter : {"A", "C"}]] :
                    n \in 0..MaxCodes} :
        /\ \A i \in 1..Len(r) : r[i].letter = SectionOf(r[i].code)
        /\ \A i, j \in 1..Len(r) : r[i].code = r[j].code => i = j
        /\ \A i \in 1..Len(r) :
              Len(r[i].code) > 2 =>
                  \E j \in 1..(i - 1) :
                      r[j].code = Prefix(r[i].code, Len(r[i].code) - 1)}

NoSnapshot == [exists |-> FALSE, date |-> 1, made |-> "before"]

CompanyIdle ==
    /\ ytoday = 1
    /\ yraw = "none"
    /\ yinter = "none"
    /\ yref = FALSE
    /\ yfinal = NoSnapshot
    /\ ybefore = NoSnapshot
    /\ ygeo = "none"
    /\ ypc = "collect"

\* What earlier runs left as the final snapshot: nothing, or a snapshot of
\* a day up to today.
EarlierSnapshots(day) ==
    {NoSnapshot} \cup
    {[exists |-> TRUE, date |-> d, made |-> "before"] : d \in 1..day}

CollectInit ==
    /\ ds \in Datasets
    /\ today = 1
    /\ raw = EmptyDir
    /\ final = EmptyDir
    /\ cpc = "idle"
    /\ fetched = NoFile
    /\ path = 0
    /\ run = NewRun
    /\ everStuck = FALSE
    /\ PipelineIdle
    /\ MatchIdle
    /\ MsearchIdle
    /\ PoolIdle
    /\ GeoIdle
    /\ RowsIdle
    /\ KakaoIdle
    /\ EnrichIdle
    /\ FetchIdle
    /\ SnapIdle
    /\ IndexIdle
    /\ CleanIdle
    /\ IndustryIdle
    /\ CompanyIdle

CollectNext ==
    \/ Tick
    \/ MainFetch
    \/ SaveRawWrite
    \/ SaveRawCleanup
    \/ ProcessWrite
    \/ ProcessCleanup
    \/ Fallback
    \/ FallbackProcessWrite
    \/ FallbackProcessCleanup
    \/ MainEnd
    \/ save_to_csv_write
    \/ save_to_csv_cleanup

SpecCollect == CollectInit /\ [][CollectNext]_vars

PipelineInit ==
    /\ pmode \in Modes
    /\ ppc = PipelineStart(pmode)
    /\ attempted = {}
    /\ failedSteps = {}
    /\ CollectIdle
    /\ MatchIdle
    /\ MsearchIdle
    /\ PoolIdle
    /\ GeoIdle
    /\ RowsIdle
    /\ KakaoIdle
    /\ EnrichIdle
    /\ FetchIdle
    /\ SnapIdle
    /\ IndexIdle
    /\ CleanIdle
    /\ IndustryIdle
    /\ CompanyIdle

PipelineNext ==
    \/ ImportStep
    \/ CallStep
    \/ PipelineAgain

SpecPipeline == PipelineInit /\ [][PipelineNext]_vars

MatchInit ==
    /\ job \in Jobs
    /\ input_csv \in InputFiles
    /\ output_csv \in {NoOutput, StaleOutput}
    /\ MatchLocals
    /\ CollectIdle
    /\ PipelineIdle
    /\ MsearchIdle
    /\ PoolIdle
    /\ GeoIdle
    /\ RowsIdle
    /\ KakaoIdle
    /\ EnrichIdle
    /\ FetchIdle
    /\ SnapIdle
    /\ IndexIdle
    /\ CleanIdle
    /\ IndustryIdle
    /\ CompanyIdle

MatchNext ==
    \/ MatchStart
    \/ ReadChunk
    \/ BatchEnds
    \/ BatchCompletes
    \/ BatchRaises
    \/ ExtendResults
    \/ IntermediateSave
    \/ FinalSave
    \/ Report

SpecMatch == MatchInit /\ [][MatchNext]_vars

MsearchInit ==
    /\ sbatch \in SearchBatches
    /\ splace \in PlaceTypes
    /\ MsearchLocals
    /\ CollectIdle
    /\ PipelineIdle
    /\ MatchIdle
    /\ PoolIdle
    /\ GeoIdle
    /\ RowsIdle
    /\ KakaoIdle
    /\ EnrichIdle
    /\ FetchIdle
    /\ SnapIdle
    /\ IndexIdle
    /\ CleanIdle
    /\ IndustryIdle
    /\ CompanyIdle

MsearchNext ==
    \/ Post
    \/ ProcessBatchEnds

SpecMsearch == MsearchInit /\ [][MsearchNext]_vars

PoolInit ==
    /\ wlocs \in LocationLists
    /\ \E pt \in PlaceTypes, bs \in BatchSizes, c \in Concurrencies :
         \E lost \in SUBSET {b.i : b \in Batches(wlocs, bs)} :
             wcfg = [place_type |-> pt, batch_size |-> bs, concurrency |-> c,
                     lost |-> lost]
    /\ PoolLocals
    /\ CollectIdle
    /\ PipelineIdle
    /\ MatchIdle
    /\ MsearchIdle
    /\ GeoIdle
    /\ RowsIdle
    /\ KakaoIdle
    /\ EnrichIdle
    /\ FetchIdle
    /\ SnapIdle
    /\ IndexIdle
    /\ CleanIdle
    /\ IndustryIdle
    /\ CompanyIdle

PoolNext ==
    \/ PoolSubmit
    \/ WorkerTakes
    \/ WorkerEnds
    \/ PoolCollect
    \/ PoolRaise
    \/ PoolReturn

SpecPool == PoolInit /\ [][PoolNext]_vars

GeoInit ==
    /\ gin \in GeoInputs
    /\ gcfg \in [place_type : PlaceTypes, chunk_size : ChunkSizes,
                 batch_size : BatchSizes]
    /\ gindex \in GeoIndexes
    /\ GeoLocals
    /\ CollectIdle
    /\ PipelineIdle
    /\ MatchIdle
    /\ MsearchIdle
    /\ PoolIdle
    /\ RowsIdle
    /\ KakaoIdle
    /\ EnrichIdle
    /\ FetchIdle
    /\ SnapIdle
    /\ IndexIdle
    /\ CleanIdle
    /\ IndustryIdle
    /\ CompanyIdle

GeoNext ==
    \/ GeoReadChunk
    \/ GeoSend
    \/ GeoRetry
    \/ GeoBatch
    \/ GeoCollect
    \/ GeoRaise
    \/ GeoSave

SpecGeo == GeoInit /\ [][GeoNext]_vars

RowsInit ==
    /\ eproc \in PoolProcessors \cup LoopProcessors
    /\ edf \in RowFrames(IF eproc \in {"high_school", "university"}
                         THEN BOOLEAN ELSE {FALSE},
                         IF eproc = "add_coordinates_to_dataframe"
                         THEN BOOLEAN ELSE {TRUE})
    /\ RowsLocals
    /\ CollectIdle
    /\ PipelineIdle
    /\ MatchIdle
    /\ MsearchIdle
    /\ PoolIdle
    /\ GeoIdle
    /\ KakaoIdle
    /\ EnrichIdle
    /\ FetchIdle
    /\ SnapIdle
    /\ IndexIdle
    /\ CleanIdle
    /\ IndustryIdle
    /\ CompanyIdle

RowsNext ==
    \/ RowsStart
    \/ RowsTaskCompletes
    \/ RowsAssemble
    \/ RowsLoopStep
    \/ RowsLoopEnd

SpecRows == RowsInit /\ [][RowsNext]_vars

KakaoInit ==
    /\ kcaller \in {"process_single_address", "fix_missing_coordinates"}
    /\ kaddress \in Addresses
    /\ KakaoLocals
    /\ CollectIdle
    /\ PipelineIdle
    /\ MatchIdle
    /\ MsearchIdle
    /\ PoolIdle
    /\ GeoIdle
    /\ RowsIdle
    /\ EnrichIdle
    /\ FetchIdle
    /\ SnapIdle
    /\ IndexIdle
    /\ CleanIdle
    /\ IndustryIdle
    /\ CompanyIdle

KakaoNext ==
    \/ KakaoFirst
    \/ KakaoSecond
    \/ KakaoRegion

SpecKakao == KakaoInit /\ [][KakaoNext]_vars

EnrichInit ==
    /\ nproc \in {"add_coordinates_to_dataframe", "fix_missing_coordinates",
                  "enrich_legal_dong_codes", "apply_address_deduplication",
                  "add_industry_classification", "enrich_company_data"}
    /\ \E rec \in EnrichRecords(
                      IF nproc = "apply_address_deduplication"
                      THEN [ctp_nm : Names, sig_nm : Names, emd_nm : Names]
                               \cup DuplicatedNames
                      ELSE {ProviderNames, NoNames,
                            remove_address_duplicates(ProviderNames.ctp_nm,
                                ProviderNames.sig_nm, ProviderNames.emd_nm)}) :
           /\ nproc = "apply_address_deduplication" =>
                  /\ rec.adres = "plain"
                  /\ rec.coord = "old"
                  /\ ~MissingCode(rec)
                  /\ rec.in_table /\ rec.industry = "old"
           /\ nproc = "enrich_company_data" =>
                  rec.in_table /\ rec.industry = "old"
           /\ nproc # "enrich_company_data" =>
                  rec.code_text = "int" /\ rec.decimals = "upto10"
           /\ rec.frame = "no_text" =>
                  nproc = "add_coordinates_to_dataframe" /\ rec.adres = "nan"
           /\ nhist = <<rec>>
    /\ ncalls = <<>>
    /\ CollectIdle
    /\ PipelineIdle
    /\ MatchIdle
    /\ MsearchIdle
    /\ PoolIdle
    /\ GeoIdle
    /\ RowsIdle
    /\ KakaoIdle
    /\ FetchIdle
    /\ SnapIdle
    /\ IndexIdle
    /\ CleanIdle
    /\ IndustryIdle
    /\ CompanyIdle

EnrichNext ==
    \/ ApplyAddCoordinates
    \/ ApplyFixMissingCoordinates
    \/ ApplyEnrichLegalDongCodes
    \/ ApplyAddressDeduplication
    \/ ApplyIndustryClassification
    \/ ApplyEnrichCompanyData

SpecEnrich == EnrichInit /\ [][EnrichNext]_vars

FetchInit ==
    /\ fcollector \in {"industry", "legal_dong", "universities",
                       "download_corp_codes", "get_company_info"}
    /\ FetchLocals
    /\ CollectIdle
    /\ PipelineIdle
    /\ MatchIdle
    /\ MsearchIdle
    /\ PoolIdle
    /\ GeoIdle
    /\ RowsIdle
    /\ KakaoIdle
    /\ EnrichIdle
    /\ SnapIdle
    /\ IndexIdle
    /\ CleanIdle
    /\ IndustryIdle
    /\ CompanyIdle

FetchNext ==
    \/ FetchAllPages
    \/ CollectUniversities
    \/ DownloadCorpCodes
    \/ GetCompanyInfo
    \/ FetchSave

SpecFetch == FetchInit /\ [][FetchNext]_vars

\* The loops run on their own: a loop that can take a step takes it.
SpecFetchFair == SpecFetch /\ WF_vars(FetchNext)

SnapInit ==
    /\ ldataset \in DOMAIN DatasetName
    /\ lkind \in {"raw", "final"}
    /\ ldir \in Listings(ldataset, lkind)
    /\ lpicks = SnapNoPicks
    /\ CollectIdle
    /\ PipelineIdle
    /\ MatchIdle
    /\ MsearchIdle
    /\ PoolIdle
    /\ GeoIdle
    /\ RowsIdle
    /\ KakaoIdle
    /\ EnrichIdle
    /\ FetchIdle
    /\ IndexIdle
    /\ CleanIdle
    /\ IndustryIdle
    /\ CompanyIdle

SnapNext ==
    \/ SnapCollectorFallback
    \/ SnapProcessorInput
    \/ SnapLoadReference
    \/ SnapGetLatestCsvFile
    \/ SnapRunIndexing

SpecSnap == SnapInit /\ [][SnapNext]_vars

IndexInit ==
    /\ xfiles \in IndexDirs
    /\ xchunk \in {1, 2}
    /\ xindex \in OldIndexes
    /\ IndexLocals
    /\ CollectIdle
    /\ PipelineIdle
    /\ MatchIdle
    /\ MsearchIdle
    /\ PoolIdle
    /\ GeoIdle
    /\ RowsIdle
    /\ KakaoIdle
    /\ EnrichIdle
    /\ FetchIdle
    /\ SnapIdle
    /\ CleanIdle
    /\ IndustryIdle
    /\ CompanyIdle

IndexNext ==
    \/ IndexCreate
    \/ IndexOpen
    \/ IndexBulkChunk
    \/ IndexReturn

SpecIndex == IndexInit /\ [][IndexNext]_vars

CleanInit ==
    /\ qaddress \in CleanAddresses
    /\ CleanLocals
    /\ CollectIdle
    /\ PipelineIdle
    /\ MatchIdle
    /\ MsearchIdle
    /\ PoolIdle
    /\ GeoIdle
    /\ RowsIdle
    /\ KakaoIdle
    /\ EnrichIdle
    /\ FetchIdle
    /\ SnapIdle
    /\ IndexIdle
    /\ IndustryIdle
    /\ CompanyIdle

CleanNext ==
    \/ CleanOnce
    \/ CleanAgain

SpecClean == CleanInit /\ [][CleanNext]_vars

IndustryInit ==
    /\ traw \in RawTables
    /\ trec \in [code : IndustryCodes, column : {"int", "float", "text"}]
    /\ IndustryLocals
    /\ CollectIdle
    /\ PipelineIdle
    /\ MatchIdle
    /\ MsearchIdle
    /\ PoolIdle
    /\ GeoIdle
    /\ RowsIdle
    /\ KakaoIdle
    /\ EnrichIdle
    /\ FetchIdle
    /\ SnapIdle
    /\ IndexIdle
    /\ CleanIdle
    /\ CompanyIdle

IndustryNext ==
    \/ IndustryBuild
    \/ IndustryClassify

SpecIndustry == IndustryInit /\ [][IndustryNext]_vars

CompanyInit ==
    /\ ytoday \in Dates
    /\ yraw \in {"none", "old"}
    /\ yinter \in {"none", "stale"}
    /\ yref \in BOOLEAN
    /\ yfinal \in EarlierSnapshots(ytoday)
    /\ ybefore = yfinal
    /\ ygeo = "none"
    /\ ypc = "collect"
    /\ CollectIdle
    /\ PipelineIdle
    /\ MatchIdle
    /\ MsearchIdle
    /\ PoolIdle
    /\ GeoIdle
    /\ RowsIdle
    /\ KakaoIdle
    /\ EnrichIdle
    /\ FetchIdle
    /\ SnapIdle
    /\ IndexIdle
    /\ CleanIdle
    /\ IndustryIdle

CompanyNext ==
    \/ CompanyCollect
    \/ CompanyGeocode
    \/ CompanyIndustry

SpecCompany == CompanyInit /\ [][CompanyNext]_vars

(***************************************************************************)
(* Properties of the collectors' snapshot handling.                        *)
(***************************************************************************)
Normalising == ds \in {"industry", "legal_dong"}

\* C1: in the industry-code and legal-dong collectors, when the live fetch or
\* a later step of main() fails and a dated raw snapshot is on disk, main()
\* has run the normalisation on the raw file of the greatest date suffix and
\* a final snapshot exists when main() is over.
C1_FallbackLeavesFinal ==
    (cpc = "end" /\ Normalising /\ run.failed /\ run.rawAtFb)
        => /\ run.normFrom = run.latestAtFb
           /\ Files(final) # {}

\* C2: when the remote API is unreachable and a dated raw snapshot S exists,
\* the final file the collection step leaves is the newest final file and
\* holds what process_and_save_final gives for S, the raw file of the
\* greatest date suffix; the step raises exactly when normalising S raises.
C2_FallbackEqualsReprocess ==
    (cpc = "end" /\ Normalising /\ run.fetch = "net" /\ run.rawAtFb)
        => LET S == raw[Latest(raw)] IN
           IF NormRaises(ds, S)
           THEN run.result = "raised"
           ELSE /\ run.result = "False"
                /\ run.finalDate = Latest(final)
                /\ final[run.finalDate] = Normalize(ds, S)

\* C2 witness: a fallback run that chose among two raw snapshots of different
\* content and left a final file.
C2_Witness ==
    /\ cpc = "end" /\ ds = "legal_dong" /\ run.fetch = "net" /\ run.rawAtFb
    /\ run.result = "False"
    /\ Cardinality(Files(raw)) = 2
    /\ Normalize(ds, raw[Latest(raw)]) # Normalize(ds, raw[Oldest(raw)])

\* C3 as stated: after a successful collection run exactly one dated raw file
\* and exactly one dated final file exist, and both carry one date, a date of
\* the run (the company raw file after collect_dart_data.main, the company
\* final file after save_to_csv).
C3_OneRawOneFinal ==
    /\ (cpc = "end" /\ run.result = "True")
           => \E d \in run.start..today :
                  /\ Files(raw) = {d}
                  /\ Normalising => Files(final) = {d}
    /\ (cpc = "end" /\ run.result = "saved")
           => \E d \in run.start..today : Files(final) = {d}

\* C3 with each file's date read as the date at which the file was written
\* (save_raw_to_csv and process_and_save_final each read the clock): after a
\* successful collection run exactly one dated raw file and exactly one dated
\* final file exist, whether or not the deletion of an older file failed.
C3_OneFileEachWrittenDate ==
    /\ (cpc = "end" /\ run.result = "True")
           => /\ Files(raw) = {run.rawDate}
              /\ Normalising => Files(final) = {run.finalDate}
    /\ (cpc = "end" /\ run.result = "saved")
           => Files(final) = {run.start}

\* C4 as stated: in every reachable state, the state between the write of a
\* new file and the deletion of the older ones and the state after a failed
\* deletion included, each dataset has at most one dated file in a snapshot
\* directory.
C4_AtMostOneFile ==
    /\ Cardinality(Files(raw)) <= 1
    /\ Cardinality(Files(final)) <= 1

\* C4 outside the window between the write of a new file and the cleanup
\* that follows it in the same function: a snapshot directory holds at most
\* one dated file of the dataset, whether or not a deletion has failed.
C4_AtMostOneFileAfterCleanup ==
    /\ cpc # "clean_raw" => Cardinality(Files(raw)) <= 1
    /\ cpc \notin {"clean_final", "fb_clean", "mgr_clean"}
           => Cardinality(Files(final)) <= 1

(***************************************************************************)
(* Properties of the orchestrator.                                         *)
(***************************************************************************)
\* C5: whichever steps of run_full_pipeline fail, a step whose module cannot
\* be loaded included, every later step is still attempted and
\* run_full_pipeline returns without raising: a finished run has returned and
\* has attempted all nine steps.
C5_PipelineNeverAborts ==
    (pmode = "full" /\ ppc.phase \in {"returned", "raised"})
        => /\ ppc.phase = "returned"
           /\ attempted = StepIds

(***************************************************************************)
(* Properties of the matcher.                                              *)
(***************************************************************************)
\* The two sequences hold the same elements the same number of times.
SameRows(a, b) ==
    /\ Len(a) = Len(b)
    /\ \A i \in 1..Len(a) :
           Cardinality({j \in 1..Len(a) : a[j] = a[i]})
               = Cardinality({j \in 1..Len(b) : b[j] = a[i]})

RECURSIVE Concat(_)
Concat(seqs) ==
    IF seqs = <<>> THEN <<>> ELSE Head(seqs) \o Concat(Tail(seqs))

\* The data lines the run has written to the output file.
Written == Concat([k \in 1..Len(saves) |-> saves[k].lines])

\* The data lines of the run that reads the whole input as one chunk, gets
\* the same answer to every sub-query and saves once, at the end of the
\* stream: none when the input is missing or empty or process_batch raises.
UnchunkedLines ==
    IF ~input_csv.exists \/ input_csv.rows = <<>> THEN <<>>
    ELSE LET chunk == ChunkRows(input_csv.rows, 1, Len(input_csv.rows))
             locs == UserLocations(chunk, job.place_type, input_csv.time_col)
             bs == Batches(locs, job.batch_size)
             starts == SortedSeq({b.i : b \in bs})
             of(i) == CHOOSE b \in bs : b.i = i
         IN IF \E b \in bs : ProcessBatchRaises(Responses(b.batch)) THEN <<>>
            ELSE Lines(Concat([k \in 1..Len(starts) |->
                     process_batch(of(starts[k]).batch, job.place_type,
                                   Responses(of(starts[k]).batch))]))

\* C6: for any input, chunk size and save interval, a finished run in which
\* every batch was answered has written the same data lines, as a multiset,
\* as the run that reads the whole input as one chunk and saves once.
C6_ChunkedEqualsUnchunked ==
    (mpc = "done" /\ ~abandoned) => SameRows(Written, UnchunkedLines)

\* The result a line was written from, without the format of its cells.
Unformatted(rs) == [i \in 1..Len(rs) |-> [id |-> rs[i].id, hit |-> rs[i].hit]]

\* C7: over any run that has collected results, the first save truncates the
\* file and writes the header, every later save appends without a header, and
\* when the run has ended the output file is one header line followed by
\* every collected result exactly once.
C7_OutputIsHeaderPlusResults ==
    /\ \A k \in 1..Len(saves) :
           /\ saves[k].mode = (IF k = 1 THEN "w" ELSE "a")
           /\ saves[k].header = (k = 1)
    /\ (mpc = "done" /\ collected # <<>>)
           => /\ output_csv.exists
              /\ output_csv.header = 1
              /\ SameRows(Unformatted(output_csv.rows), Unformatted(collected))

\* C8: at every point of a run the number of accumulated results, the chunk's
\* own results included, is below INTERMEDIATE_SAVE_INTERVAL + CHUNK_SIZE, and
\* from the start of a chunk until its results are added the number of
\* accumulated results is below INTERMEDIATE_SAVE_INTERVAL.
C8_AccumulatedBelowBound ==
    /\ Len(all_results) < job.interval + job.chunk_size
    /\ mpc = "batches"
           => Len(all_results) + Len(results) < job.interval + job.chunk_size
    /\ mpc \in {"chunk", "batches"} => Len(all_results) < job.interval

\* C8 witness: after a chunk of two rows the accumulated results are one
\* below INTERMEDIATE_SAVE_INTERVAL + CHUNK_SIZE and the save is due.
C8_Witness ==
    /\ mpc = "save"
    /\ job.chunk_size = 2
    /\ Len(all_results) = job.interval + job.chunk_size - 1
    /\ SaveDue(Len(all_results), job.interval)

\* C9: for one batch sync_msearch sends at most MAX_RETRIES requests, every
\* request but the last one has failed, the loop ends at the first readable
\* response or after MAX_RETRIES failures, and after MAX_RETRIES failures
\* process_batch returns the empty list and does not raise.
C9_MsearchRetries ==
    /\ Len(requests) <= MAX_RETRIES
    /\ \A i \in 1..(Len(requests) - 1) : requests[i] \in HttpFailures
    /\ spc = "loop" => Len(requests) = attempt
    /\ spc # "loop" =>
           IF requests[Len(requests)] \in HttpFailures
           THEN /\ Len(requests) = MAX_RETRIES
                /\ sresponse = NoResponse
                /\ spc = "done" => sout = [raised |-> FALSE, results |-> <<>>]
           ELSE sresponse # NoResponse

\* C9 witness: three failed requests, an unreadable body among them, for a
\* batch with a row the backend would match; process_batch has returned.
C9_Witness ==
    /\ spc = "done"
    /\ Len(requests) = MAX_RETRIES
    /\ \A i \in 1..Len(requests) : requests[i] \in HttpFailures
    /\ \E i \in 1..Len(requests) : requests[i] = "body"
    /\ \E i \in 1..Len(sbatch) : sbatch[i].ans = "hit"
    /\ sout.results = <<>>

\* The rows of the input that are queried and that the backend matches.
MatchedIds ==
    {i \in 1..Len(input_csv.rows) :
        /\ input_csv.rows[i].coord
        /\ input_csv.rows[i].ans = "hit"
        /\ (job.place_type = "company" /\ input_csv.time_col)
               => input_csv.rows[i].time = "DAY"}

QueriedIds ==
    {i \in 1..Len(input_csv.rows) :
        /\ input_csv.rows[i].coord
        /\ (job.place_type = "company" /\ input_csv.time_col)
               => input_csv.rows[i].time = "DAY"}

\* C10: a sub-query response that is error-tagged, empty or unusable costs
\* only its own row its match: when the run has ended and every batch was
\* answered, the output holds the match of every other queried row exactly
\* once and the job has gone on to its end (it returned True when it queried
\* any row).
C10_UnusableAffectsOnlyItsRow ==
    (mpc = "done" /\ input_csv.exists /\ ~abandoned)
        => /\ {Written[k].id : k \in 1..Len(Written)} = MatchedIds
           /\ Len(Written) = Cardinality(MatchedIds)
           /\ QueriedIds # {} => mret = "True"

(***************************************************************************)
(* Properties of the worker pool.                                          *)
(***************************************************************************)
\* The records of all batches in submission order.
PoolExpected ==
    LET starts == SortedSeq({b.i : b \in Batches(wlocs, wcfg.batch_size)})
    IN Concat([k \in 1..Len(starts) |->
                  process_batch(BatchAt(starts[k]).batch, wcfg.place_type,
                                ResponseOf(starts[k]))])

PoolRaises ==
    \E b \in Batches(wlocs, wcfg.batch_size) : ProcessBatchRaises(ResponseOf(b.i))

\* C11: at most self.concurrency batches run at once; for every completion
\* order batch_find_nearest_places_parallel ends the same way, raising when a
\* batch raises and otherwise returning the same multiset of records; and
\* every collected record carries the position and the adid of the location
\* whose sub-query produced its hit.
C11_OrderIndependent ==
    /\ Cardinality(running) <= wcfg.concurrency
    /\ wpc = "returned" => ~PoolRaises /\ SameRows(wresults, PoolExpected)
    /\ wpc = "raised" => PoolRaises
    /\ \A k \in 1..Len(wresults) :
           /\ wresults[k].id = wresults[k].hit
           /\ wresults[k].adid = wlocs[wresults[k].id].adid
           /\ wlocs[wresults[k].id].ans = "hit"

\* C11 witness: two workers, batches yielded out of submission order, and a
\* returned record whose hit follows a location without a hit in its batch.
C11_Witness ==
    /\ wpc = "returned"
    /\ wcfg.concurrency = 2
    /\ Len(yielded) >= 2 /\ yielded[1] > yielded[2]
    /\ \E k \in 1..Len(wresults) :
           /\ wresults[k].id > 1
           /\ (wresults[k].id - 2) \div wcfg.batch_size
                  = (wresults[k].id - 1) \div wcfg.batch_size
           /\ wlocs[wresults[k].id - 1].ans # "hit"

(***************************************************************************)
(* Properties of the geo search.                                           *)
(***************************************************************************)
\* The row has its coordinates and, for the place type company, the time
\* type DAY.
GeoSurvives(i) ==
    /\ gin.rows[i].coord
    /\ gcfg.place_type = "company" => gin.rows[i].time = "DAY"

\* The sub-queries sent for row i: the body and the position inside it.
GeoQueries(i) ==
    {p \in UNION {{<<k, j>> : j \in 1..Len(gsent[k])} : k \in 1..Len(gsent)} :
        gsent[p[1]][p[2]].location = i}

\* The places of the searched type within the configured radius of row i.
GeoNear(i) ==
    {d \in gindex : /\ d.place_type = gcfg.place_type
                    /\ Metres(gin.rows[i].pos, d.pos)
                           <= GEO_SEARCH_CONFIG[gcfg.place_type]}

\* The rows of the output file written for row i.
GeoOutputRows(i) == {k \in 1..Len(gout.rows) : gout.rows[k].id = i}

\* C12: when every request succeeds, each row that survives the filtering is
\* sent in exactly one sub-query of exactly one batch of at most
\* search_batch_size rows; the output holds exactly one row for it, with a
\* distance of at most the place type's radius, when the index has a place of
\* the type within the radius, and no row for it otherwise.
C12_OneQueryOneRow ==
    (gpc = "done" /\ ~gfailed) =>
        /\ \A k \in 1..Len(gsent) : Len(gsent[k]) <= gcfg.batch_size
        /\ \A i \in 1..Len(gin.rows) :
               GeoSurvives(i) =>
                   /\ Cardinality(GeoQueries(i)) = 1
                   /\ IF GeoNear(i) # {}
                      THEN /\ Cardinality(GeoOutputRows(i)) = 1
                           /\ \A k \in GeoOutputRows(i) :
                                  gout.rows[k].hit.sort
                                      <= GEO_SEARCH_CONFIG[gcfg.place_type]
                      ELSE GeoOutputRows(i) = {}

\* A finished run in which the rows of one chunk went out in more than one
\* batch, with a matched row and a surviving row whose nearest place of the
\* type lies outside the radius.
C12_Witness ==
    /\ gpc = "done"
    /\ ~gfailed
    /\ Len(gsent) >= 2
    /\ gcfg.chunk_size > gcfg.batch_size
    /\ \E i \in 1..Len(gin.rows) : GeoSurvives(i) /\ GeoOutputRows(i) # {}
    /\ \E i \in 1..Len(gin.rows) :
           /\ GeoSurvives(i)
           /\ GeoNear(i) = {}
           /\ \E d \in gindex : d.place_type = gcfg.place_type

(***************************************************************************)
(* Properties of the row-by-row collectors and processors.                 *)
(***************************************************************************)
\* Output row i holds input row i with the columns its own task or loop step
\* produced.
RowsAligned(n) ==
    \A i \in 1..n : eout[i].row = edf[i].key /\ eout[i].from = edf[i].key

\* C13: for every completion order and every set of failing tasks, the
\* output of each collector and processor has exactly one row per input row,
\* in input order, and row i of the output is derived from row i of the
\* input.
C13_OneRowPerInputRow ==
    epc = "done" => Len(eout) = Len(edf) /\ RowsAligned(Len(edf))

(***************************************************************************)
(* Properties of the address lookup.                                       *)
(***************************************************************************)
\* C15: for every input value and every behaviour of the provider,
\* get_coordinates_from_address returns a coordinate pair or (None, None) and
\* get_legal_dong_from_coord returns a region record or None; neither raises
\* to its caller.
C15_ClientNeverRaises ==
    /\ ~kraised
    /\ kpc # "raised"
    /\ kcoord \in {"pair", "None"}
    /\ kregion.result \in {"record", "None"}

\* C16: every caller looks up the raw address first, looks up the cleaned
\* address second exactly when the first lookup gave no result and cleaning
\* changed the string to a non-empty one, and makes at most two lookups.
C16_TwoPassLookup ==
    (kpc = "done" /\ klookups # <<>>) =>
        LET cleaned == clean_address_for_search(kaddress)
        IN /\ Len(klookups) <= 2
           /\ klookups[1].query = kaddress
           /\ Len(klookups) = 2 <=> /\ klookups[1].outcome # "found"
                                    /\ cleaned # kaddress
                                    /\ cleaned.s # <<>>
           /\ Len(klookups) = 2 => klookups[2].query = cleaned

(***************************************************************************)
(* Properties of the enrichment processors.                                *)
(***************************************************************************)
\* The record's coordinate, region codes and names and industry columns are
\* all populated.
Populated(rec) ==
    /\ rec.coord # "missing"
    /\ ~MissingCode(rec)
    /\ \A f \in {"ctp_nm", "sig_nm", "emd_nm"} :
           rec.names[f].kind = "str" /\ rec.names[f].s # <<>>
    /\ rec.industry # "missing"

\* C14: every enrichment processor acts only on missing fields: a populated
\* record, given or the processor's own output, comes out unchanged and causes
\* no remote call.
C14_OnlyMissingFields ==
    \A k \in 1..(Len(nhist) - 1) :
        Populated(nhist[k]) => nhist[k + 1] = nhist[k] /\ ncalls[k] = 0

(***************************************************************************)
(* Properties of the collectors' request loops.                            *)
(***************************************************************************)
\* C17: the pagination loop of every collector terminates for every
\* behaviour of the server.
C17_PaginationTerminates ==
    fcollector \in {"industry", "legal_dong", "universities"} ~> fpc # "loop"

\* C18: a transient failure of a request is retried a fixed number of times
\* and propagates only after the retries are exhausted; a malformed or
\* unexpected response propagates on its first occurrence, with no retry.
C18_RetryThenPropagate ==
    /\ (flast \in Transient /\ ftries < API_RETRY_COUNT) => fpc = "loop"
    /\ (flast \in Transient /\ ftries = API_RETRY_COUNT) => fpc = "raised"
    /\ flast \in Malformed => fpc = "raised"

(***************************************************************************)
(* Properties of the collectors' failure without a snapshot.               *)
(***************************************************************************)
\* C19: when the live fetch of a collector fails and no dated raw snapshot of
\* the dataset exists, the step ends in a failure that reaches the
\* orchestrator: main() raises.
C19_MissingSnapshotRaises ==
    (cpc = "end" /\ run.fetch \in {"net", "shape", "empty"} /\ ~run.rawAtFb)
        => run.result = "raised"

(***************************************************************************)
(* Properties of the choice of the latest snapshot.                        *)
(***************************************************************************)
\* The positions of the listing that hold a snapshot of the dataset.
SnapOwn == {i \in 1..Len(ldir) : ldir[i].stem \in OwnStems(ldataset, lkind)}

\* The positions of the listing that hold the dataset's raw file of the
\* fixed name, which has no date suffix.
SnapFixed ==
    {i \in 1..Len(ldir) :
        ldataset \in DOMAIN FixedRawStem /\ ldir[i].stem = FixedRawStem[ldataset]}

\* The date suffix of the file at a position of the listing.
SnapSuffix(i) == ldir[i].stem[Len(ldir[i].stem)]

\* C20: every site that picks the latest snapshot of a dataset picks the
\* file whose date suffix is greatest in lexicographic order, whatever the
\* modification times and the order of the listing, so that all the sites
\* of a directory pick the same file.  Without a dated snapshot a site picks
\* nothing, or the file of the fixed name.
C20_LatestByDateSuffix ==
    /\ \A s \in Sites : lpicks[s].ran =>
          IF SnapOwn = {} THEN lpicks[s].at \in {0} \cup SnapFixed
          ELSE /\ lpicks[s].at \in SnapOwn
               /\ \A j \in SnapOwn :
                     ~LexLess(SnapSuffix(lpicks[s].at), SnapSuffix(j))
    /\ \A s, t \in Sites :
          (SnapOwn # {} /\ lpicks[s].ran /\ lpicks[t].ran)
              => lpicks[s].at = lpicks[t].at

C20_Witness ==
    /\ lkind = "final"
    /\ lpicks["manager"].ran /\ lpicks["indexing"].ran
    /\ Cardinality(SnapOwn) >= 2
    /\ lpicks["manager"].at > 1
    /\ \E j \in SnapOwn : ldir[j].mtime > ldir[lpicks["manager"].at].mtime
    /\ \E i \in 1..Len(ldir) : i \notin SnapOwn

(***************************************************************************)
(* Properties of the indexer.                                              *)
(***************************************************************************)
\* The labels of the rows of a file that have both coordinates.
IndexLocated(t) ==
    {i \in 0..(Len(xfiles[t].rows) - 1) :
        xfiles[t].rows[i + 1].lat # "nan" /\ xfiles[t].rows[i + 1].lon # "nan"}

\* Every load printed its counts and no document was rejected.
IndexClean ==
    /\ xpc = "done"
    /\ \A t \in PlaceTypes : xreport[t].status \in {"indexed", "no_file"}
    /\ \A t \in PlaceTypes : xreport[t].failed = 0

\* The index holds the documents of this run only, one per located row.
IndexExact ==
    /\ \A d \in xindex : ~d.old
    /\ \A t \in PlaceTypes : \A i \in 0..MaxIndexRows :
          Cardinality({d \in xindex : d.id = <<t, i>>})
              = IF i \in IndexLocated(t) THEN 1 ELSE 0
    /\ \A d \in xindex : d.id[1] \in PlaceTypes /\ d.id[2] \in 0..MaxIndexRows

\* C21: after run_indexing the index holds no document from before the run
\* and exactly one document, under the id of its place type and row label,
\* for each row with both coordinates; rows without a coordinate have none,
\* and every field of a document is a field of the schema, lat and lon
\* among them.
C21_IndexMirrorsFinalFiles ==
    IndexClean =>
        /\ IndexExact
        /\ \A d \in xindex :
              d.fields \subseteq SchemaFields /\ {"lat", "lon"} \subseteq d.fields

\* C22 as stated: a bulk failure while loading one final CSV, rejected
\* documents or the failure of the bulk request, is counted and reported and
\* never aborts the load: every dataset that has a file is reported with the
\* counts of its accepted and its failed documents, which add up to the
\* documents of the file, and the accepted documents stay in the index.
C22_BulkFailureCounted ==
    /\ \A id \in xaccepted : \E d \in xindex : d.id = id /\ ~d.old
    /\ \A t \in PlaceTypes :
          xreport[t].status \in {"indexed", "bulk_failed"} =>
              xreport[t].success + xreport[t].failed
                  = Len(generate_docs(t, xfiles[t].rows))
    /\ xpc = "done" =>
          \A t \in PlaceTypes :
              xfiles[t].exists => xreport[t].status \in {"indexed", "bulk_failed"}

\* C22 amended: rejected documents are counted and reported and do not end
\* the load of their file; a bulk request that fails is reported by its
\* message only, without a count, and ends the load of that one file.  In
\* both cases the accepted documents stay in the index and run_indexing
\* goes on to load every remaining dataset; only a failure of create_index,
\* before any load, leaves run_indexing.
C22_BulkFailureDoesNotAbort ==
    /\ \A id \in xaccepted : \E d \in xindex : d.id = id /\ ~d.old
    /\ \A t \in PlaceTypes :
          xreport[t].status = "indexed" =>
              xreport[t].success + xreport[t].failed
                  = Len(generate_docs(t, xfiles[t].rows))
    /\ xpc = "raised" => \A t \in PlaceTypes : xreport[t] = NoReport
    /\ xpc = "done" =>
          \A t \in PlaceTypes :
              IF xfiles[t].exists
              THEN xreport[t].status \in {"indexed", "bulk_failed"}
              ELSE xreport[t].status = "no_file"

\* C22 witness: a finished run in which the bulk request failed for the high
\* schools after some of their documents were accepted, and the companies
\* were loaded afterwards with a rejected document.
C22_Witness ==
    /\ xpc = "done"
    /\ xreport["high_school"].status = "bulk_failed"
    /\ \E id \in xaccepted : id[1] = "high_school"
    /\ xreport["company"].status = "indexed"
    /\ xreport["company"].failed >= 1

(***************************************************************************)
(* Properties of the address functions.                                    *)
(***************************************************************************)
\* C23: cleaning an address that is already cleaned returns it unchanged.
C23_CleanIdempotent == qpc = "twice" => qtwice = qonce

(***************************************************************************)
(* Properties of the industry enrichment.                                  *)
(***************************************************************************)
\* The company's raw code is one of the codes of the raw table.
IndustryListed == \E i \in 1..Len(traw) : traw[i].code = trec.code

\* The columns hold the chain of the company's own code.
IndustryOwnChain ==
    /\ tout.d1 = SectionOf(trec.code)
    /\ tout.n1 = depth1_map[SectionOf(trec.code)]
    /\ \A k \in 2..5 :
          tout.cd[k] = IF k <= Len(trec.code) THEN Prefix(trec.code, k)
                       ELSE <<>>

\* C24: for a company whose raw industry code is a code of the hierarchy
\* table, the enrichment fills the columns with the chain of that code: the
\* code of depth k is the first k characters of the raw code up to its own
\* depth, leading zeros kept, depth 1 is its section letter with the name of
\* the alphabet map, and no deeper level is filled from another code.
C24_OwnAncestorChain ==
    (tpc = "classified" /\ IndustryListed) => IndustryOwnChain

\* A name without blanks around it.
TrimmedName(v) == v.kind = "str" /\ v.s # <<>> /\ Strip(v.s) = v.s

\* The applications of the address de-duplication: positions of the history.
Deduplications ==
    IF nproc = "apply_address_deduplication" THEN 1..(Len(nhist) - 1) ELSE {}

\* s without a leading p, when p is not empty and s starts with it.
WithoutLeading(s, p) ==
    IF p # <<>> /\ StartsWith(s, p) THEN AfterPrefix(s, p) ELSE s

\* C25 as stated: the province comes back unchanged, the district without a
\* leading province, and the sub-district without a leading province and
\* district, or without a leading district.
C25_DeduplicationAsStated ==
    \A k \in Deduplications :
        LET in == nhist[k].names
        IN  (TrimmedName(in.ctp_nm) /\ TrimmedName(in.sig_nm)
                /\ TrimmedName(in.emd_nm))
            => nhist[k + 1].names
                   = StatedDuplicates(in.ctp_nm, in.sig_nm, in.emd_nm)

\* C25, amended: the names come back without the blanks around them, a
\* missing name as the empty string; the district loses a leading province;
\* the sub-district first loses a leading province and then a leading
\* province and district, or else a leading district.
C25_Deduplication ==
    \A k \in Deduplications :
        LET in == nhist[k].names
            out == nhist[k + 1].names
            ctp == NameText(in.ctp_nm)
            sig == NameText(in.sig_nm)
            emd == WithoutLeading(NameText(in.emd_nm), ctp)
            district == IF sig # <<>> THEN WithoutLeading(sig, ctp) ELSE sig
            both == IF ctp # <<>> THEN Strip(ctp \o <<" ">> \o district)
                    ELSE district
        IN  /\ out.ctp_nm = Str(ctp)
            /\ out.sig_nm = Str(district)
            /\ out.emd_nm = Str(IF both # <<>> /\ StartsWith(emd, both)
                                THEN AfterPrefix(emd, both)
                                ELSE WithoutLeading(emd, district))

C25_Witness ==
    /\ nproc = "apply_address_deduplication"
    /\ Len(nhist) >= 2
    /\ nhist[1].names = ProviderNames
    /\ nhist[2].names = [ctp_nm |-> Str(<<"a">>), sig_nm |-> Str(<<"b">>),
                         emd_nm |-> Str(<<"c">>)]

(***************************************************************************)
(* Properties of the collectors' snapshots and retries.                    *)
(***************************************************************************)
\* C26: a collector replaces the raw snapshot only with a listing that was
\* fetched completely; a run whose pagination stopped early or skipped a
\* page leaves the previous snapshot.
C26_NoPartialSnapshot == fsnapshot # "partial"

\* C30: collect_universities gives a page three attempts on network errors
\* and raises only after three failed attempts in a row on one page; the
\* count starts again once the collector has moved on to another page.
C30_ThreeAttemptsPerPage ==
    fcollector = "universities" =>
        /\ ftries <= UNIV_MAX_RETRIES + 1
        /\ fpc = "raised" => ftries = UNIV_MAX_RETRIES + 1
        /\ (flast = "network" /\ ftries <= UNIV_MAX_RETRIES) => fpc = "loop"

(***************************************************************************)
(* Properties of the company pipeline.                                     *)
(***************************************************************************)
\* C27: when the geocoding step of run_company_pipeline fails, the latest
\* final company snapshot after the run is the one from before the run; the
\* run publishes no new final snapshot.
C27_FailedGeocodingKeepsFinal ==
    (ypc = "done" /\ ygeo = "failed") => yfinal = ybefore

\* C28: after match_locations has returned True the output file holds only
\* rows of this run; no row an earlier run wrote to the same path is left,
\* also when this run matched nothing.
C28_OutputOnlyFromThisRun ==
    mret = "True" =>
        \A i \in 1..Len(output_csv.rows) :
            \A k \in 1..Len(StaleOutput.rows) :
                output_csv.rows[i] # StaleOutput.rows[k]

\* C29: match_locations returns True for every existing input file whose
\* requests were all answered, an input without data rows and an input
\* whose rows the filters all remove included.
C29_TrueForReadableInput ==
    (mpc = "done" /\ input_csv.exists /\ ~abandoned) => mret = "True"
====
